---- MODULE Spec2Model ----
(***************************************************************************)
(* Support-desk backend: knowledge-base retrieval (search_knowledge_base,  *)
(* search_kb_hybrid), embedding backfill (fill_knowledge_base_embeddings)  *)
(* and e-mail ingestion (create_or_update_ticket_from_email), modelled     *)
(* from src/backend/repositories.py, src/backend/app.py, src/backend/db.py *)
(* and src/backend/embedding_service.py; the bulk import of                *)
(* src/init_database.py, the MVP flow (process-latest, reply, update of a  *)
(* ticket, the draft and its confidence) of src/backend/app.py, and the    *)
(* guardrails of src/backend/ai_guardrails.py.                             *)
(*                                                                         *)
(* Text is modelled character by character: a string is a sequence of      *)
(* one-character strings, so that strip(), re.split(r"\W+"), ILIKE and the *)
(* PostgreSQL text-search normalisation are computed, not assumed.         *)
(* Every connection is opened with autocommit=True (db.py:30), so each SQL *)
(* statement is its own transaction and a failed statement does not        *)
(* poison the statements that follow it on the same cursor.                *)
(***************************************************************************)
EXTENDS Integers, Sequences, FiniteSets, TLC

VARIABLES
    kb,          \* table knowledge_base: a set of rows
    kbSeq,       \* last value handed out by knowledge_base.id SERIAL
    tickets,     \* table tickets: a set of rows
    ticketSeq,   \* last value handed out by tickets.id SERIAL
    emailLog,    \* table email_log: number of incoming rows per message_id
    schema,      \* which optional columns exist: [embedding, search_vector]
    now,         \* logical CURRENT_TIMESTAMP
    lastSearch,  \* observation of the last finished retrieval call
    ingest,      \* per worker: the running create_or_update_ticket_from_email
    deliveries,  \* finished deliveries of _ingest_single_email
    fill,        \* per worker: the running fill_knowledge_base_embeddings
    lastFill,    \* observation of the last finished backfill run
    lastCall,    \* observation of the last finished call of another operation
    proc,        \* per worker: the running process-latest or reply request
    outgoing     \* table email_log: the outgoing rows, oldest first

vars == <<kb, kbSeq, tickets, ticketSeq, emailLog, schema, now, lastSearch,
          ingest, deliveries, fill, lastFill, lastCall, proc, outgoing>>

-----------------------------------------------------------------------------
(* Bounds of the model *)

MaxKb == 3         \* knowledge_base rows that save-to-kb may bring the table to
MaxClock == 3      \* writes that advance the logical clock
MaxDeliveries == 3 \* deliveries of e-mails that are recorded
MaxRuns == 3       \* backfill runs that are counted

-----------------------------------------------------------------------------
(* Strings *)

Lower(c) ==
    CASE c = "A" -> "a"
      [] c = "B" -> "b"
      [] c = "K" -> "k"
      [] OTHER -> c

LowerStr(s) == [i \in 1..Len(s) |-> Lower(s[i])]

\* \w of Python's re / the alphanumeric class of the text-search parser
IsWordChar(c) == c \in {"a", "b", "c", "k", "z", "A", "B", "K", "1"}

IsSpace(c) == c \in {" ", "\n"}

RECURSIVE LStrip(_)
LStrip(s) == IF s # <<>> /\ IsSpace(Head(s)) THEN LStrip(Tail(s)) ELSE s

RECURSIVE RStrip(_)
RStrip(s) ==
    IF s # <<>> /\ IsSpace(s[Len(s)]) THEN RStrip(SubSeq(s, 1, Len(s) - 1)) ELSE s

\* str.strip()
Strip(s) == RStrip(LStrip(s))

\* re.split(r"\W+", s) without the empty strings it yields at the ends
RECURSIVE SplitFrom(_, _, _)
SplitFrom(s, i, cur) ==
    IF i > Len(s) THEN (IF cur = <<>> THEN <<>> ELSE <<cur>>)
    ELSE IF IsWordChar(s[i]) THEN SplitFrom(s, i + 1, Append(cur, s[i]))
    ELSE (IF cur = <<>> THEN <<>> ELSE <<cur>>) \o SplitFrom(s, i + 1, <<>>)

ReSplit(s) == SplitFrom(s, 1, <<>>)

Range(f) == {f[i] : i \in DOMAIN f}

\* text ILIKE '%' || pat || '%'  (pat holds neither % nor _ in this alphabet,
\* so the escaping of repositories.py:219 leaves it unchanged)
ILike(text, pat) ==
    \E i \in 1..(Len(text) - Len(pat) + 1) :
        LowerStr(SubSeq(text, i, i + Len(pat) - 1)) = LowerStr(pat)

-----------------------------------------------------------------------------
(* PostgreSQL full-text search, as the queries of repositories.py use it.   *)
(* search_vector is built with the 'simple' configuration (lower-cased     *)
(* tokens, no stemming); tiers 2 and 3 query it with the 'russian'          *)
(* configuration (stop words dropped, endings stemmed away).                *)

\* to_tsvector('simple', text): the set of lower-cased tokens
SimpleLexemes(text) == {LowerStr(t) : t \in Range(ReSplit(text))}

\* the 'russian' dictionary: a stop word yields no lexeme
RussianStopWords == {<<"z", "a">>}

\* the 'russian' snowball stemmer on this alphabet: the ending "a" is removed
RussianStem(w) ==
    IF Len(w) > 2 /\ w[Len(w)] = "a" THEN SubSeq(w, 1, Len(w) - 1) ELSE w

\* plainto_tsquery('russian', q): the lexemes that must ALL be present
PlainToTsQueryRussian(q) ==
    {RussianStem(LowerStr(t)) :
        t \in {u \in Range(ReSplit(q)) : LowerStr(u) \notin RussianStopWords}}

\* plainto_tsquery('simple', q)
PlainToTsQuerySimple(q) == SimpleLexemes(q)

\* knowledge_base.search_vector: title with weight A, content with weight B
SearchVector(e) == SimpleLexemes(e.title) \union SimpleLexemes(e.content)

\* search_vector @@ tsquery; an empty tsquery matches nothing
TsMatch(e, lexemes) == lexemes # {} /\ lexemes \subseteq SearchVector(e)

\* ts_rank(search_vector, q) in hundredths: one weight-A hit ranks 0.61,
\* a weight-B hit alone 0.24
TsRank(e, lexemes) ==
    IF \E l \in lexemes : l \in SimpleLexemes(e.title) THEN 61 ELSE 24

-----------------------------------------------------------------------------
(* Embeddings. A vector is its number of components and a direction;       *)
(* directions 0, 1, 2 stand for angles of 0, 90 and 180 degrees.           *)

EMBEDDING_DIM == 384

Vec(n, d) == [len |-> n, dir |-> d]

NullEmbedding == <<>>            \* embedding IS NULL
Stored(v) == <<v>>               \* a stored vector

\* embedding <=> query: cosine distance, in hundredths
CosineDistance(v, w) ==
    LET a == IF v.dir > w.dir THEN v.dir - w.dir ELSE w.dir - v.dir
    IN  a * 100

\* what the Hugging Face call of get_embedding can come back with: None on a
\* missing token, a network or provider error or a malformed body; else the
\* list the provider sent, whatever its length
EmbeddingReplies == {<<>>, <<Vec(EMBEDDING_DIM, 0)>>, <<Vec(EMBEDDING_DIM - 1, 0)>>}

\* get_embedding answering with a vector whatever the provider did
get_embedding_AlwaysVector(text, reply) ==
    IF reply # <<>> /\ reply[1].len = EMBEDDING_DIM THEN reply
    ELSE <<Vec(EMBEDDING_DIM, 0)>>

\* get_embedding(text): None for empty text, else the provider's reply
get_embedding(text, reply) == IF Strip(text) = <<>> THEN <<>> ELSE reply

-----------------------------------------------------------------------------
(* Rows of knowledge_base and result rows *)

KbRow(id, title, content, short_answer, category, active, emb, created) ==
    [id |-> id, title |-> title, content |-> content,
     short_answer |-> short_answer, category |-> category,
     is_active |-> active, embedding |-> emb, usage_count |-> 0,
     created_at |-> created, updated_at |-> created]

NoRank == <<>>

\* _kb_row_to_dict: the returned dict, reduced to the fields the claims read
KbRowToDict(e, rank) ==
    [id |-> e.id, content |-> e.content, short_answer |-> e.short_answer,
     category |-> e.category, rank |-> rank]

Min(a, b) == IF a < b THEN a ELSE b
Max(a, b) == IF a > b THEN a ELSE b

\* ORDER BY ... LIMIT k over the candidate set S: every sequence of
\* min(k, |S|) distinct rows that respects the strict order Before and leaves
\* out no row that must come before a row it holds. Rows that Before does not
\* order may come back in any order, as PostgreSQL promises nothing for them.
OrderByLimit(S, Before(_, _), k) ==
    LET n == Min(k, Cardinality(S))
    IN  {s \in [1..n -> S] :
            /\ \A i, j \in 1..n : i < j => s[i] # s[j] /\ ~Before(s[j], s[i])
            /\ \A x \in S \ Range(s) : \A i \in 1..n : ~Before(x, s[i])}

-----------------------------------------------------------------------------
(* search_knowledge_base: the five tiers *)

LimitLo == 1
LimitHi == 20
WordCap == 10

\* limit = max(1, min(limit, 20))
ClampLimit(limit) == Max(LimitLo, Min(limit, LimitHi))

\* not any(c in w for c in "'&!()")
HasQueryPunctuation(w) == \E i \in 1..Len(w) : w[i] \in {"'", "&", "!", "(", ")"}

KeepWord(w) == Len(w) >= 2 /\ ~HasQueryPunctuation(w)

\* words = [w for w in re.split(r"\W+", query) if len(w) >= 2 and ...][:10]
Words(query) ==
    LET ws == SelectSeq(ReSplit(query), KeepWord)
    IN  SubSeq(ws, 1, Min(Len(ws), WordCap))

\* one attempted query of a retrieval call: its tier, the rows it gave, why
\* it failed ("" when it did not) and the LIMIT it was sent with
Attempt(tier, rows, failed, limit) ==
    [tier |-> tier, rows |-> rows, failed |-> failed, limit |-> limit]

Outcome(trace, rows, raised) == [trace |-> trace, rows |-> rows, raised |-> raised]

\* the except clause around a tier's query (repositories.py:242, 264, 293,
\* 308, 327): does it catch the failure of that tier
Caught(tier) == tier \in {"vector", "weighted", "or_terms", "substring", "per_term"}

\* why a tier's query fails on this database, "" if it runs
TierFailure(tier) ==
    CASE tier = "vector" /\ ~schema.embedding -> "index"
      [] tier \in {"weighted", "or_terms"} /\ ~schema.search_vector -> "index"
      [] OTHER -> ""

\* WHERE is_active = TRUE AND embedding IS NOT NULL
VectorCandidates == {e \in kb : e.is_active /\ e.embedding # NullEmbedding}

\* (1 - (embedding <=> q)) AS rank ... ORDER BY embedding <=> q LIMIT n
VectorRows(q, limit) ==
    LET Before(a, b) ==
            CosineDistance(a.embedding[1], q) < CosineDistance(b.embedding[1], q)
        rank(e) == <<100 - CosineDistance(e.embedding[1], q)>>
    IN  {[i \in DOMAIN s |-> KbRowToDict(s[i], rank(s[i]))] :
            s \in OrderByLimit(VectorCandidates, Before, limit)}

\* WHERE is_active = TRUE AND search_vector @@ plainto_tsquery('russian', q)
WeightedCandidates(query) ==
    {e \in kb : e.is_active /\ TsMatch(e, PlainToTsQueryRussian(query))}

\* ts_rank(...) AS rank ... ORDER BY rank DESC LIMIT n
WeightedRows(query, limit) ==
    LET lex == PlainToTsQueryRussian(query)
        Before(a, b) == TsRank(a, lex) > TsRank(b, lex)
    IN  {[i \in DOMAIN s |-> KbRowToDict(s[i], <<TsRank(s[i], lex)>>)] :
            s \in OrderByLimit(WeightedCandidates(query), Before, limit)}

\* WHERE is_active = TRUE AND search_vector @@ (plainto_tsquery(w1) || ...)
OrCandidates(words) ==
    {e \in kb : e.is_active /\
        \E i \in 1..Len(words) : TsMatch(e, PlainToTsQueryRussian(words[i]))}

\* 1.0 AS rank ... ORDER BY id LIMIT n
OrRows(words, limit) ==
    LET Before(a, b) == a.id < b.id
    IN  {[i \in DOMAIN s |-> KbRowToDict(s[i], <<100>>)] :
            s \in OrderByLimit(OrCandidates(words), Before, limit)}

\* the substring filter with the is_active condition left out
LikeCandidates_AnyRow(pat) ==
    {e \in kb : ILike(e.title, pat) \/ ILike(e.content, pat)}

\* WHERE is_active = TRUE AND (title ILIKE pat OR content ILIKE pat)
LikeCandidates(pat) ==
    {e \in kb : e.is_active /\ (ILike(e.title, pat) \/ ILike(e.content, pat))}

\* 1.0 AS rank ... LIMIT n, with no ORDER BY
LikeRows(pat, limit) ==
    LET Before(a, b) == FALSE
    IN  {[i \in DOMAIN s |-> KbRowToDict(s[i], <<100>>)] :
            s \in OrderByLimit(LikeCandidates(pat), Before, limit)}

\* the rows a tier's query gives, [] when it fails
RowsOrNone(tier, rowsets) == IF TierFailure(tier) # "" THEN {<<>>} ELSE rowsets

\* for w in words: ... if rows: break   (repositories.py:310-328)
RECURSIVE PerTerm(_, _, _, _)
PerTerm(words, i, limit, pre) ==
    IF i > Len(words) THEN {Outcome(pre, <<>>, FALSE)}
    ELSE UNION {
        LET tr == Append(pre, Attempt("per_term", r, TierFailure("per_term"), limit))
        IN  IF TierFailure("per_term") # "" /\ ~Caught("per_term")
              THEN {Outcome(tr, <<>>, TRUE)}
            ELSE IF r # <<>> THEN {Outcome(tr, r, FALSE)}
            ELSE PerTerm(words, i + 1, limit, tr)
        : r \in RowsOrNone("per_term", LikeRows(words[i], limit))}

\* the combined substring tier with the per-term loop after it left out
Substring_NoPerTerm(query, words, limit, pre) ==
    {Outcome(Append(pre, Attempt("substring", r, "", limit)), r, FALSE) :
        r \in LikeRows(query, limit)}

\* if not rows: ... ILIKE pattern   (repositories.py:295-309)
Substring(query, words, limit, pre) ==
    UNION {
        LET tr == Append(pre, Attempt("substring", r, TierFailure("substring"), limit))
        IN  IF TierFailure("substring") # "" /\ ~Caught("substring")
              THEN {Outcome(tr, <<>>, TRUE)}
            ELSE IF r # <<>> \/ words = <<>> THEN {Outcome(tr, r, FALSE)}
            ELSE PerTerm(words, 1, limit, tr)
        : r \in RowsOrNone("substring", LikeRows(query, limit))}

\* if not rows: words = ...; if words: ... OR query   (repositories.py:266-294)
OrOfTerms(query, limit, pre) ==
    LET words == Words(query)
    IN  IF words = <<>> THEN Substring(query, words, limit, pre)
        ELSE UNION {
            LET tr == Append(pre, Attempt("or_terms", r, TierFailure("or_terms"), limit))
            IN  IF TierFailure("or_terms") # "" /\ ~Caught("or_terms")
                  THEN {Outcome(tr, <<>>, TRUE)}
                ELSE IF r # <<>> THEN {Outcome(tr, r, FALSE)}
                ELSE Substring(query, words, limit, tr)
            : r \in RowsOrNone("or_terms", OrRows(words, limit))}

\* the weighted tier going on to the OR-of-terms tier although it gave rows
Lexical_NoReturn(query, limit, pre) ==
    UNION {OrOfTerms(query, limit, Append(pre, Attempt("weighted", r, TierFailure("weighted"), limit)))
        : r \in RowsOrNone("weighted", WeightedRows(query, limit))}

\* the weighted full-text query and what follows it (repositories.py:245-329)
Lexical(query, limit, pre) ==
    UNION {
        LET tr == Append(pre, Attempt("weighted", r, TierFailure("weighted"), limit))
        IN  IF TierFailure("weighted") # "" /\ ~Caught("weighted")
              THEN {Outcome(tr, <<>>, TRUE)}
            ELSE IF r # <<>> THEN {Outcome(tr, r, FALSE)}
            ELSE OrOfTerms(query, limit, tr)
        : r \in RowsOrNone("weighted", WeightedRows(query, limit))}

\* search_knowledge_base(query, limit, use_vector), `reply` being what the
\* embedding provider answers if it is asked: the set of possible outcomes
search_knowledge_base(q, lim, use_vector, reply) ==
    LET query == Strip(q)
        limit == ClampLimit(lim)
        emb == get_embedding(query, reply)
    IN  IF query = <<>> THEN {Outcome(<<>>, <<>>, FALSE)}
        ELSE IF use_vector /\ emb # <<>> /\ emb[1].len = EMBEDDING_DIM
          THEN UNION {
            LET tr == <<Attempt("vector", r, TierFailure("vector"), limit)>>
            IN  IF TierFailure("vector") # "" /\ ~Caught("vector")
                  THEN {Outcome(tr, <<>>, TRUE)}
                ELSE IF r # <<>> THEN {Outcome(tr, r, FALSE)}
                ELSE Lexical(query, limit, tr)
            : r \in RowsOrNone("vector", VectorRows(emb[1], limit))}
        ELSE Lexical(query, limit, <<>>)

-----------------------------------------------------------------------------
(* search_kb_hybrid and retrieve_context *)

NoCategory == "None"     \* category is None / category IS NULL

RAG_ENABLED == TRUE
RETRIEVER_TOP_K == 3

\* why the main query of search_kb_hybrid fails, "" if it runs
HybridFailure(top_k) ==
    CASE ~schema.search_vector -> "index"
      [] top_k < 0 -> "limit"            \* LIMIT must not be negative
      [] OTHER -> ""

\* why the fallback query fails: it reads plain columns only
HybridFallbackFailure(top_k) == IF top_k < 0 THEN "limit" ELSE ""

\* AND (%s::text IS NULL OR category = %s)
CategoryFilter(e, category) == category = NoCategory \/ e.category = category

\* WHERE is_active = TRUE AND (category filter) AND (title ILIKE q OR
\* content ILIKE q OR search_vector @@ plainto_tsquery('simple', q))
HybridCandidates(query_text, category) ==
    {e \in kb : /\ e.is_active
                /\ CategoryFilter(e, category)
                /\ \/ ILike(e.title, Strip(query_text))
                   \/ ILike(e.content, Strip(query_text))
                   \/ TsMatch(e, PlainToTsQuerySimple(query_text))}

\* the fallback's WHERE: the same without the search_vector condition
HybridFallbackCandidates(query_text, category) ==
    {e \in kb : /\ e.is_active
                /\ CategoryFilter(e, category)
                /\ \/ ILike(e.title, Strip(query_text))
                   \/ ILike(e.content, Strip(query_text))}

\* ORDER BY usage_count DESC, success_rate DESC, created_at DESC LIMIT top_k
\* (success_rate keeps its default in every row: no statement writes it)
HybridRows(S, top_k) ==
    LET Before(a, b) ==
            \/ a.usage_count > b.usage_count
            \/ a.usage_count = b.usage_count /\ a.created_at > b.created_at
    IN  {[i \in DOMAIN s |-> KbRowToDict(s[i], NoRank)] :
            s \in OrderByLimit(S, Before, top_k)}

\* search_kb_hybrid without its try / except
HybridNotCaught == FALSE

\* the try / except of search_kb_hybrid: a failure of the main query is caught
HybridCaught == TRUE

\* search_kb_hybrid(query_text, category, top_k): the set of possible outcomes
search_kb_hybrid(query_text, category, top_k) ==
    LET f1 == HybridFailure(top_k)
        f2 == HybridFallbackFailure(top_k)
    IN  IF f1 = ""
          THEN {Outcome(<<Attempt("hybrid", r, "", top_k)>>, r, FALSE) :
                    r \in HybridRows(HybridCandidates(query_text, category), top_k)}
        ELSE IF ~HybridCaught
          THEN {Outcome(<<Attempt("hybrid", <<>>, f1, top_k)>>, <<>>, TRUE)}
        ELSE IF f2 # ""
          THEN {Outcome(<<Attempt("hybrid", <<>>, f1, top_k),
                          Attempt("hybrid_fallback", <<>>, f2, top_k)>>, <<>>, TRUE)}
        ELSE {Outcome(<<Attempt("hybrid", <<>>, f1, top_k),
                        Attempt("hybrid_fallback", r, "", top_k)>>, r, FALSE) :
                    r \in HybridRows(HybridFallbackCandidates(query_text, category),
                                     top_k)}

-----------------------------------------------------------------------------
(* The texts, queries and rows the model draws from *)

tKab  == <<"k", "a", "b">>
tKaba == <<"k", "a", "b", "a">>
tAbCc == <<"a", "b", " ", "c", "c">>
tBc   == <<"b", "c">>
tCca  == <<"c", "c", "a">>
tBb   == <<"b", "b">>

\* title, content, category of the entries a corpus is made of
EntryTexts ==
    { [title |-> tKab,  content |-> tAbCc, category |-> "account"],
      [title |-> tKaba, content |-> tBc,   category |-> "hardware"] }

Queries ==
    { <<>>,                                   \* empty
      <<" ">>,                                \* blank
      <<" ", "K", "A", "B">>,                 \* " KAB": a stored lexeme
      tKaba,                                  \* stems to kab, a substring only
      <<"a", "b">>,                           \* a content lexeme
      <<"k", "a", "b", " ", "z", "z">>,       \* one term of two is a lexeme
      <<"c", "c", "a", " ", "k", "a", "b", "a">>,   \* two substring-only terms
      <<"!", "b">> }                          \* no term of two characters

Limits == {0, 2, 25}
TopKs == {0, 1, RETRIEVER_TOP_K}
Categories == {NoCategory, "account", "hardware"}

\* s[:n]
Take(s, n) == SubSeq(s, 1, Min(Len(s), n))

\* short = content[:500] of the bulk import; also the cut of /kb/ask
ShortAnswerChars == 500

\* the rows a table can hold before the service starts: at most one row per
\* id 1 and 2, each active or not, each with or without an embedding
InitRows(id) ==
    { KbRow(id, t.title, t.content, Take(t.content, ShortAnswerChars),
              t.category, a, emb, 0) :
        t \in EntryTexts, a \in BOOLEAN,
        emb \in {NullEmbedding, Stored(Vec(EMBEDDING_DIM, 0))} }

InitCorpora ==
    {{}} \union {{r} : r \in InitRows(1)}
         \union {{r1, r2} : r1 \in InitRows(1), r2 \in InitRows(2)}

-----------------------------------------------------------------------------
(* State after start-up *)

Workers == {"w1", "w2"}

NoMessageId == ""

TicketRow(id, message_id, status, subject, question, category) ==
    [id |-> id, message_id |-> message_id, status |-> status,
     subject |-> subject, question |-> question, category |-> category,
     answer |-> <<>>, is_resolved |-> FALSE, updated_at |-> 0,
     client_email |-> "client", client_name |-> <<>>, phone |-> <<>>,
     location_object |-> <<>>, serial_numbers |-> <<>>, device_type |-> <<>>,
     needs_attention |-> FALSE, ai_suggested_answer |-> <<>>]

\* _seed_demo_tickets_if_empty: the two demo e-mails, ingested and drafted
DemoTickets ==
    { TicketRow(1, "<demo-seed-1@local>", "drafted", tKab, tAbCc, "hardware"),
      TicketRow(2, "<demo-seed-2@local>", "drafted", tCca, tBb, NoCategory) }

NoSearch ==
    [op |-> "none", query |-> <<>>, limit |-> 0, category |-> NoCategory,
     use_vector |-> FALSE, trace |-> <<>>, rows |-> <<>>, raised |-> FALSE,
     kbAt |-> {}]

IdleIngest == [pc |-> "idle", message_id |-> NoMessageId, ticket_id |-> 0,
               created |-> FALSE]

\* a worker's run of fill_knowledge_base_embeddings: its place, the rows its
\* scan read and are still to be handled, its two counters; and, for the
\* claims, what the scan saw and whether the run followed the previous one
\* with no write to the table in between
IdleFill == [pc |-> "idle", rows |-> <<>>, updated |-> 0, errors |-> 0,
             nullBefore |-> 0, embeddedBefore |-> 0, failures |-> 0,
             inARow |-> FALSE]

\* the last finished run: what it returned and what it met; `dirty` tells
\* that the table was written since it finished
NoFill == [runs |-> 0, updated |-> 0, errors |-> 0, nullBefore |-> 0,
           embeddedBefore |-> 0, failures |-> 0, inARow |-> FALSE,
           dirty |-> FALSE]

\* no call of save-to-kb, /kb/ask or a helper has finished yet
NoCall == [op |-> "none"]

\* a worker that serves neither /mvp/process-latest nor /tickets/{id}/reply
IdleRequest == [pc |-> "idle", message_id |-> NoMessageId, ticket_id |-> 0,
                send_ok |-> FALSE, served |-> 0]

MaxOf(S) == IF S = {} THEN 0 ELSE CHOOSE x \in S : \A y \in S : y <= x

InitCommon ==
    /\ tickets = DemoTickets
    /\ ticketSeq = 2
    /\ emailLog = [m \in {"<demo-seed-1@local>", "<demo-seed-2@local>", "<m1@x>",
                            "<m2@x>", NoMessageId} |->
                        IF m \in {"<demo-seed-1@local>", "<demo-seed-2@local>"}
                          THEN 1 ELSE 0]
    /\ now = 0
    /\ lastSearch = NoSearch
    /\ ingest = [w \in Workers |-> IdleIngest]
    /\ deliveries = <<>>
    /\ fill = [w \in Workers |-> IdleFill]
    /\ lastFill = NoFill
    /\ lastCall = NoCall
    /\ proc = [w \in Workers |-> IdleRequest]
    /\ outgoing = <<>>

\* a table made without pgvector has no embedding column, so none of its
\* rows has an embedding
Init ==
    /\ InitCommon
    /\ kb \in InitCorpora
    /\ kbSeq = MaxOf({e.id : e \in kb})
    /\ schema \in [embedding : BOOLEAN, search_vector : BOOLEAN]
    /\ ~schema.embedding => \A e \in kb : e.embedding = NullEmbedding

-----------------------------------------------------------------------------
(* Retrieval entry points *)

SearchIdle == lastSearch.op = "none"

\* GET /kb/search?q=..&limit=..&use_vector=..   A `category` query parameter
\* is not declared by the endpoint, so a request that carries one is served
\* with the parameter dropped.
api_kb_search(q, limit, use_vector, category, reply) ==
    /\ SearchIdle
    /\ \E o \in search_knowledge_base(q, limit, use_vector, reply) :
        lastSearch' = [op |-> "search", query |-> q, limit |-> limit,
                       category |-> category, use_vector |-> use_vector,
                       trace |-> o.trace, rows |-> o.rows, raised |-> o.raised,
                       kbAt |-> kb]
    /\ UNCHANGED <<proc, outgoing,
                   kb, kbSeq, tickets, ticketSeq, emailLog, schema, now,
                   ingest, deliveries, fill, lastFill,
                   lastCall>>

\* retrieve_context(question, category), the retrieval of run_ai_pipeline
retrieve_context(question, category, top_k) ==
    /\ SearchIdle
    /\ RAG_ENABLED
    /\ \E o \in search_kb_hybrid(question, category, top_k) :
        lastSearch' = [op |-> "hybrid", query |-> question, limit |-> top_k,
                       category |-> category, use_vector |-> FALSE,
                       trace |-> o.trace, rows |-> o.rows, raised |-> o.raised,
                       kbAt |-> kb]
    /\ UNCHANGED <<proc, outgoing,
                   kb, kbSeq, tickets, ticketSeq, emailLog, schema, now,
                   ingest, deliveries, fill, lastFill,
                   lastCall>>

\* the response of the retrieval call has been delivered to its caller
SearchReturn ==
    /\ ~SearchIdle
    /\ lastSearch' = NoSearch
    /\ UNCHANGED <<proc, outgoing,
                   kb, kbSeq, tickets, ticketSeq, emailLog, schema, now,
                   ingest, deliveries, fill, lastFill,
                   lastCall>>

-----------------------------------------------------------------------------
(* save-to-kb *)

\* the same without the zero-padding of a short vector
project_to_384_NoPad(values) ==
    IF Len(values) > EMBEDDING_DIM THEN SubSeq(values, 1, EMBEDDING_DIM) ELSE values

\* _project_to_384(values): a list of numbers to exactly 384 of them
project_to_384(values) ==
    IF Len(values) = EMBEDDING_DIM THEN values
    ELSE IF Len(values) > EMBEDDING_DIM THEN SubSeq(values, 1, EMBEDDING_DIM)
    ELSE values \o [i \in 1..(EMBEDDING_DIM - Len(values)) |-> 0]

BERT_ENABLED == TRUE

\* hidden size of bert-base-multilingual-cased, the default BERT_MODEL_NAME
BertHiddenSize == 768

\* what the local encoder does for a text: it raises (no torch, no model
\* files, out of memory), written <<>>, or it gives the pooled vector
\* the encoder's pooled vector for a text
EncoderWorks == <<[i \in 1..BertHiddenSize |-> 2]>>

EncoderReplies == {<<>>, EncoderWorks}

\* _hf_embedding(text): raises, or the pooled vector projected to 384
hf_embedding(text, enc) ==
    IF enc = <<>> THEN <<>> ELSE <<project_to_384(enc[1])>>

\* the fallback of text_to_vector_384: 384 numbers made of the bytes of the
\* text's SHA-256 digest
Sha256Vector(text) == [i \in 1..EMBEDDING_DIM |-> 1]

\* the same without the projection of the pooled vector
text_to_vector_384_Unprojected(text, enc) ==
    IF BERT_ENABLED /\ enc # <<>> THEN enc[1] ELSE Sha256Vector(text)

\* text_to_vector_384(text): the local encoder's vector or, if the encoder
\* is switched off or raises, the digest vector; never None
text_to_vector_384(text, enc) ==
    IF BERT_ENABLED /\ hf_embedding(text, enc) # <<>>
      THEN hf_embedding(text, enc)[1]
      ELSE Sha256Vector(text)

\* a list of floats as the value of a vector column: its number of
\* components and its direction
ToVector(values) == Vec(Len(values), IF values = <<>> THEN 0 ELSE values[1])

\* the INSERT of create_kb_entry names the embedding column; on a table made
\* without pgvector the statement is refused (UndefinedColumn)
InsertRefused == ~schema.embedding

\* create_kb_entry: INSERT INTO knowledge_base ... RETURNING id, then the
\* UPDATE of the ticket's status
create_kb_entry(ticket_id, title, content, short_answer, category, embedding) ==
    /\ kbSeq' = kbSeq + 1
    /\ kb' = kb \union {KbRow(kbSeq + 1, title, content, short_answer,
                              category, TRUE,
                              Stored(ToVector(embedding)), now)}
    /\ tickets' = {IF t.id = ticket_id
                     THEN [t EXCEPT !.status = "saved_to_kb", !.updated_at = now]
                     ELSE t : t \in tickets}

\* the observation of a finished save-to-kb request
SaveCall(ticket_id, enc, raised, kb_id) ==
    [op |-> "save", ticket_id |-> ticket_id, encoderFailed |-> enc = <<>>,
     raised |-> raised, kb_id |-> kb_id, idsBefore |-> {e.id : e \in kb}]

\* POST /tickets/{ticket_id}/save-to-kb with the request's title, if any,
\* `enc` being what the local encoder does during the request.
\* A retrieval call is one atomic read whose observation keeps the table it
\* read (kbAt), so writes are modelled between retrieval calls.
api_save_ticket_to_kb(ticket_id, req_title, enc) ==
    /\ SearchIdle
    /\ \E t \in tickets :
        /\ t.id = ticket_id
        /\ LET title == IF req_title # <<>> THEN req_title ELSE t.subject
               content == t.question
               embedding == text_to_vector_384(title \o <<" ">> \o content, enc)
           IN  IF InsertRefused
                 THEN /\ lastCall' = SaveCall(ticket_id, enc, TRUE, 0)
                      /\ UNCHANGED <<kb, kbSeq, tickets, now, lastFill, fill>>
                 ELSE /\ Cardinality(kb) < MaxKb
                      /\ now < MaxClock
                      /\ create_kb_entry(ticket_id, title, content, t.answer,
                                         t.category, embedding)
                      /\ now' = now + 1
                      /\ lastFill' = [lastFill EXCEPT !.dirty = TRUE]
                      /\ fill' = [w \in Workers |->
                                    [fill[w] EXCEPT !.inARow = FALSE]]
                      /\ lastCall' = SaveCall(ticket_id, enc, FALSE, kbSeq + 1)
    /\ UNCHANGED <<proc, outgoing,
                   ticketSeq, emailLog, schema, lastSearch, ingest, deliveries>>

-----------------------------------------------------------------------------

Next ==
    \/ \E q \in Queries, limit \in Limits, category \in {NoCategory, "hardware"} :
        \/ api_kb_search(q, limit, FALSE, category, <<>>)
        \/ \E reply \in EmbeddingReplies :
            api_kb_search(q, limit, TRUE, category, reply)
    \/ \E q \in Queries, category \in Categories, top_k \in TopKs :
        retrieve_context(q, category, top_k)
    \/ SearchReturn
    \/ \E t \in tickets : api_save_ticket_to_kb(t.id, <<>>, EncoderWorks)

Spec == Init /\ [][Next]_vars

-----------------------------------------------------------------------------
(* Claims about retrieval, checked under Spec *)

IsSearch == lastSearch.op = "search"
IsRetrieval == lastSearch.op \in {"search", "hybrid"}

TierRank(tier) ==
    CASE tier = "vector" -> 1
      [] tier = "weighted" -> 2
      [] tier = "or_terms" -> 3
      [] tier = "substring" -> 4
      [] tier = "per_term" -> 5
      [] OTHER -> 0

RowIds(rows) == {rows[i].id : i \in DOMAIN rows}

\* the row of the table the call read that has this id
ReadRow(id) == CHOOSE e \in lastSearch.kbAt : e.id = id

\* C1: search_knowledge_base attempts its tiers in the order vector, weighted
\* lexical, OR-of-terms, combined substring, per-term substring; every attempt
\* but the last one gave no rows, and the call returns exactly the rows of its
\* last attempt, so nothing is queried or merged after a tier gave rows.
C1_TierOrder ==
    IsSearch =>
        LET tr == lastSearch.trace
            n == Len(tr)
        IN  /\ \A i, j \in 1..n : i < j =>
                \/ TierRank(tr[i].tier) < TierRank(tr[j].tier)
                \/ tr[i].tier = "per_term" /\ tr[j].tier = "per_term"
            /\ \A i \in 1..n : TierRank(tr[i].tier) >= 1
            /\ \A i \in 1..(n - 1) : tr[i].rows = <<>>
            /\ lastSearch.rows = IF n = 0 THEN <<>> ELSE tr[n].rows
            /\ (Strip(lastSearch.query) # <<>> /\ lastSearch.rows = <<>>) =>
                  /\ \E i \in 1..n : tr[i].tier = "weighted"
                  /\ tr[n].tier \in {"substring", "per_term"}

\* a call that went through all five tiers and got its rows from the last
C1_Witness ==
    /\ IsSearch
    /\ Len(lastSearch.trace) >= 5
    /\ lastSearch.trace[1].tier = "vector"
    /\ lastSearch.trace[3].tier = "or_terms"
    /\ lastSearch.trace[Len(lastSearch.trace)].tier = "per_term"
    /\ lastSearch.rows # <<>>

\* C2: no retrieval call, in any tier of search_knowledge_base or in either
\* query of search_kb_hybrid, gives a row of an entry with is_active = false.
C2_InactiveExcluded ==
    IsRetrieval =>
        /\ \A id \in RowIds(lastSearch.rows) : ReadRow(id).is_active
        /\ \A i \in DOMAIN lastSearch.trace :
              \A id \in RowIds(lastSearch.trace[i].rows) : ReadRow(id).is_active

\* a call that returned rows while an inactive entry held the query's text
C2_Witness ==
    /\ IsRetrieval
    /\ lastSearch.rows # <<>>
    /\ Strip(lastSearch.query) # <<>>
    /\ \E e \in lastSearch.kbAt :
          /\ ~e.is_active
          /\ e.embedding # NullEmbedding
          /\ ILike(e.title, Strip(lastSearch.query))

\* C3: a retrieval call made with a category gives only rows of that category.
C3_CategoryFilter ==
    (IsRetrieval /\ lastSearch.category # NoCategory) =>
        \A i \in DOMAIN lastSearch.rows :
            lastSearch.rows[i].category = lastSearch.category

\* the terms of the call's query, as search_knowledge_base splits them
QueryWords == Words(Strip(lastSearch.query))

HoldsText(e, pat) == ILike(e.title, pat) \/ ILike(e.content, pat)

\* the active entries of the table read that hold the term w
Holders(w) == {e \in lastSearch.kbAt : e.is_active /\ HoldsText(e, w)}

\* the call found nothing by vector and nothing by full text
NoIndexedMatch ==
    \A i \in DOMAIN lastSearch.trace :
        lastSearch.trace[i].tier \in {"vector", "weighted", "or_terms"}
            => lastSearch.trace[i].rows = <<>>

SharesTerm(e) ==
    e.is_active /\ \E i \in DOMAIN QueryWords : HoldsText(e, QueryWords[i])

\* the pattern whose substring query decides the call: the whole query if an
\* active entry holds it, else the first term that an active entry holds
DecidingPattern ==
    IF Holders(Strip(lastSearch.query)) # {} THEN Strip(lastSearch.query)
    ELSE QueryWords[CHOOSE i \in DOMAIN QueryWords :
            /\ Holders(QueryWords[i]) # {}
            /\ \A j \in 1..(i - 1) : Holders(QueryWords[j]) = {}]

\* C4 as claimed: with no vector and no full-text match, every active entry
\* that holds a term of the query is in the result.
C4_EverySharingEntryReturned ==
    (IsSearch /\ NoIndexedMatch) =>
        \A e \in lastSearch.kbAt : SharesTerm(e) => e.id \in RowIds(lastSearch.rows)

\* C4: with no vector and no full-text match, and an active entry holding a
\* term of the query, search_knowledge_base returns a non-empty result from
\* the substring tiers; each returned entry is active and holds the deciding
\* pattern (the whole query, else the first term that any active entry
\* holds); an entry holding that pattern is in the result whenever no more
\* entries hold it than the clamped limit allows.
C4_SubstringFallthrough ==
    (IsSearch /\ NoIndexedMatch /\ \E e \in lastSearch.kbAt : SharesTerm(e)) =>
        /\ lastSearch.rows # <<>>
        /\ lastSearch.trace[Len(lastSearch.trace)].tier \in {"substring", "per_term"}
        /\ RowIds(lastSearch.rows) \subseteq {e.id : e \in Holders(DecidingPattern)}
        /\ Cardinality(Holders(DecidingPattern)) <= ClampLimit(lastSearch.limit)
              => RowIds(lastSearch.rows) = {e.id : e \in Holders(DecidingPattern)}

\* a call that fell through vector and full text and was answered per term
C4_Witness ==
    /\ IsSearch
    /\ NoIndexedMatch
    /\ \E i \in DOMAIN lastSearch.trace : lastSearch.trace[i].tier = "or_terms"
    /\ lastSearch.trace[Len(lastSearch.trace)].tier = "per_term"
    /\ \E e \in lastSearch.kbAt : SharesTerm(e) /\ e.id \in RowIds(lastSearch.rows)

OnlyIndexFailures ==
    \A i \in DOMAIN lastSearch.trace : lastSearch.trace[i].failed \in {"", "index"}

\* C5: when a tier's query fails because its index is unavailable, the call
\* does not raise, the tier counts for no rows and the next tier is attempted,
\* in search_knowledge_base and in search_kb_hybrid.
C5_IndexFailureCaught ==
    (IsRetrieval /\ OnlyIndexFailures) =>
        /\ ~lastSearch.raised
        /\ \A i \in DOMAIN lastSearch.trace :
              lastSearch.trace[i].failed = "index" =>
                  /\ lastSearch.trace[i].rows = <<>>
                  /\ i < Len(lastSearch.trace)
                  /\ lastSearch.trace[i + 1].tier # lastSearch.trace[i].tier

\* a hybrid call answered by its fallback query after the main query failed
C5_Witness ==
    /\ lastSearch.op = "hybrid"
    /\ lastSearch.trace[1].failed = "index"
    /\ lastSearch.rows # <<>>

-----------------------------------------------------------------------------
(* E-mail ingestion: create_or_update_ticket_from_email and                *)
(* _ingest_single_email. The SELECT and the INSERT are two statements, each *)
(* its own transaction; tickets.message_id is UNIQUE.                       *)

MessageIds == {"<m1@x>", "<m2@x>", NoMessageId}

Started == Len(deliveries) + Cardinality({w \in Workers : ingest[w].pc # "idle"})

Delivery(message_id, ticket_id, created, error) ==
    [message_id |-> message_id, ticket_id |-> ticket_id, created |-> created,
     error |-> error]

\* tickets.message_id VARCHAR(255) UNIQUE: does the INSERT of this
\* message_id violate the constraint (NULLs never do)
UniqueViolation(message_id) ==
    message_id # NoMessageId /\ \E t \in tickets : t.message_id = message_id

\* if message_id: SELECT id FROM tickets WHERE message_id = %s
IngestSelect(w, m) ==
    /\ ingest[w].pc = "idle"
    /\ Started < MaxDeliveries
    /\ IF m # NoMessageId /\ \E t \in tickets : t.message_id = m
         THEN LET t == CHOOSE t \in tickets : t.message_id = m
              IN  ingest' = [ingest EXCEPT ![w] =
                    [pc |-> "log", message_id |-> m, ticket_id |-> t.id,
                     created |-> FALSE]]
         ELSE ingest' = [ingest EXCEPT ![w] =
                    [pc |-> "insert", message_id |-> m, ticket_id |-> 0,
                     created |-> FALSE]]
    /\ UNCHANGED <<proc, outgoing,
                   kb, kbSeq, tickets, ticketSeq, emailLog, schema, now,
                   lastSearch, deliveries, fill, lastFill,
                   lastCall>>

\* INSERT INTO tickets (...) VALUES (..., 'new', message_id, ...) RETURNING id.
\* The sequence value is taken whether or not the row goes in; a violation
\* of the UNIQUE constraint is raised to the caller of _ingest_single_email.
IngestInsert(w) ==
    /\ ingest[w].pc = "insert"
    /\ ticketSeq' = ticketSeq + 1
    /\ IF UniqueViolation(ingest[w].message_id)
         THEN /\ tickets' = tickets
              /\ deliveries' = Append(deliveries,
                    Delivery(ingest[w].message_id, 0, FALSE, TRUE))
              /\ ingest' = [ingest EXCEPT ![w] = IdleIngest]
         ELSE /\ tickets' = tickets \union
                    {TicketRow(ticketSeq + 1, ingest[w].message_id, "new",
                               tKab, tAbCc, NoCategory)}
              /\ deliveries' = deliveries
              /\ ingest' = [ingest EXCEPT ![w] =
                    [@ EXCEPT !.pc = "log", !.ticket_id = ticketSeq + 1,
                              !.created = TRUE]]
    /\ UNCHANGED <<proc, outgoing,
                   kb, kbSeq, emailLog, schema, now, lastSearch, fill, lastFill,
                   lastCall>>

\* create_email_log(..., direction="incoming"), then return ticket_id
IngestLog(w) ==
    /\ ingest[w].pc = "log"
    /\ emailLog' = [emailLog EXCEPT ![ingest[w].message_id] = @ + 1]
    /\ deliveries' = Append(deliveries,
            Delivery(ingest[w].message_id, ingest[w].ticket_id,
                     ingest[w].created, FALSE))
    /\ ingest' = [ingest EXCEPT ![w] = IdleIngest]
    /\ UNCHANGED <<proc, outgoing,
                   kb, kbSeq, tickets, ticketSeq, schema, now, lastSearch,
                   fill, lastFill,
                   lastCall>>

InitIngest ==
    /\ InitCommon
    /\ kb = {}
    /\ kbSeq = 0
    /\ schema = [embedding |-> TRUE, search_vector |-> TRUE]

NextIngest ==
    \/ \E w \in Workers, m \in MessageIds : IngestSelect(w, m)
    \/ \E w \in Workers : IngestInsert(w)
    \/ \E w \in Workers : IngestLog(w)

SpecIngest == InitIngest /\ [][NextIngest]_vars

-----------------------------------------------------------------------------
(* Embedding backfill: fill_knowledge_base_embeddings *)

\* from embedding_service import get_embedding succeeded
GetEmbeddingImported == TRUE

\* the columns of knowledge_base, as information_schema.columns lists them
KbColumns ==
    {"id", "title", "content", "category", "is_active"}
        \union (IF schema.embedding THEN {"embedding"} ELSE {})
        \union (IF schema.search_vector THEN {"search_vector"} ELSE {})

\* the rows of the probe, made by the cursor's row factory dict_row: one
\* dict per column, keyed by the name of the selected column
ProbeRows == {[column_name |-> c] : c \in KbColumns}

\* r[0] on a row that came from a tuple cursor: its first column
TupleRowIndex0(r) == r.column_name

\* r[0] on a row made by dict_row: the dict has no key 0, KeyError is raised
DictRowIndex0(r) == "KeyError"

\* try: if "embedding" not in {r[0] for r in cur.fetchall()}: return 0, 0
\* except Exception: return 0, 0          (repositories.py:343-351)
ProbeStops ==
    LET names == {DictRowIndex0(r) : r \in ProbeRows}
    IN  "KeyError" \in names \/ "embedding" \notin names

\* f"{title} {content}".strip()[:8192]
FillText(r) == Strip(r.title \o <<" ">> \o r.content)

NullRows == {e \in kb : e.embedding = NullEmbedding}

IsVector384(emb) == emb # <<>> /\ emb[1].len = EMBEDDING_DIM

OthersIdle(w) == \A v \in Workers \ {w} : fill[v].pc = "idle"

\* another worker's run is no longer one that follows a finished run directly
Overlapped(w) ==
    [v \in Workers |-> IF v = w THEN fill[v] ELSE [fill[v] EXCEPT !.inARow = FALSE]]

\* lines 337-355: the import check, the column probe and, if the probe lets
\* the run go on, the scan SELECT id, title, content ... WHERE embedding IS NULL
FillBegin(w, reply) ==
    LET seen == Cardinality({e \in NullRows : FillText(e) # <<>>})
        have == Cardinality(kb \ NullRows)
        follows == lastFill.runs >= 1 /\ ~lastFill.dirty /\ OthersIdle(w)
    IN  /\ lastFill.runs < MaxRuns
        /\ IF ~GetEmbeddingImported \/ ProbeStops
             THEN /\ lastFill' =
                        [runs |-> lastFill.runs + 1, updated |-> 0, errors |-> 0,
                         nullBefore |-> seen, embeddedBefore |-> have,
                         failures |-> IF IsVector384(reply) THEN 0 ELSE seen,
                         inARow |-> follows, dirty |-> FALSE]
                  /\ fill' = Overlapped(w)
             ELSE /\ \E s \in OrderByLimit(NullRows, LAMBDA a, b : FALSE,
                                           Cardinality(NullRows)) :
                        fill' = [Overlapped(w) EXCEPT ![w] =
                            [pc |-> "loop", rows |-> s, updated |-> 0,
                             errors |-> 0, nullBefore |-> seen,
                             embeddedBefore |-> have, failures |-> 0,
                             inARow |-> follows]]
                  /\ lastFill' = lastFill
        /\ UNCHANGED <<kb, now>>

\* lines 356-374: one pass of the loop over the scanned rows
FillRow(w, reply) ==
    LET r == Head(fill[w].rows)
        emb == get_embedding(FillText(r), reply)
        rest == [fill[w] EXCEPT !.rows = Tail(fill[w].rows)]
    IN  IF FillText(r) = <<>>
          THEN /\ fill' = [fill EXCEPT ![w] = rest]
               /\ UNCHANGED <<kb, now, lastFill>>
        ELSE IF ~IsVector384(emb)
          THEN /\ fill' = [fill EXCEPT ![w] =
                    [rest EXCEPT !.errors = @ + 1, !.failures = @ + 1]]
               /\ UNCHANGED <<kb, now, lastFill>>
        ELSE \* UPDATE knowledge_base SET embedding = %s::vector,
             \*   updated_at = CURRENT_TIMESTAMP WHERE id = %s
             /\ now < MaxClock
             /\ now' = now + 1
             /\ kb' = {IF e.id = r.id
                         THEN [e EXCEPT !.embedding = emb, !.updated_at = now + 1]
                         ELSE e : e \in kb}
             /\ fill' = [Overlapped(w) EXCEPT ![w] = [rest EXCEPT !.updated = @ + 1]]
             /\ lastFill' = [lastFill EXCEPT !.dirty = TRUE]

\* line 375: return updated, errors
FillReturn(w) ==
    /\ lastFill' = [runs |-> lastFill.runs + 1, updated |-> fill[w].updated,
                    errors |-> fill[w].errors, nullBefore |-> fill[w].nullBefore,
                    embeddedBefore |-> fill[w].embeddedBefore,
                    failures |-> fill[w].failures, inARow |-> fill[w].inARow,
                    dirty |-> FALSE]
    /\ fill' = [fill EXCEPT ![w] = IdleFill]
    /\ UNCHANGED <<kb, now>>

\* POST /kb/refresh-embeddings served by worker w: the next step of its run
\* of fill_knowledge_base_embeddings, `reply` being what the embedding
\* provider answers during this step
fill_knowledge_base_embeddings(w, reply) ==
    /\ IF fill[w].pc = "idle" THEN FillBegin(w, reply)
       ELSE IF fill[w].rows # <<>> THEN FillRow(w, reply)
       ELSE FillReturn(w)
    /\ UNCHANGED <<proc, outgoing,
                   kbSeq, tickets, ticketSeq, emailLog, schema, lastSearch,
                   ingest, deliveries,
                   lastCall>>

InitBackfill == Init

NextBackfill ==
    \/ \E w \in Workers, reply \in EmbeddingReplies :
        fill_knowledge_base_embeddings(w, reply)
    \/ \E t \in tickets, enc \in EncoderReplies :
        api_save_ticket_to_kb(t.id, <<>>, enc)

SpecBackfill == InitBackfill /\ [][NextBackfill]_vars

-----------------------------------------------------------------------------
(* Claims about e-mail ingestion and the embedding backfill *)

TicketsOf(m) == {t \in tickets : t.message_id = m}

DeliveriesOf(m) == {i \in DOMAIN deliveries : deliveries[i].message_id = m}

IngestQuiet == \A w \in Workers : ingest[w].pc = "idle"

\* C6: delivering an e-mail with the same non-empty message_id several
\* times, one after the other or concurrently, leaves at most one ticket
\* with that message_id; no delivery fails, every delivery returns the id
\* of that ticket, and exactly one of them reports created = True.
C6_IdempotentIngestion ==
    \A m \in MessageIds \ {NoMessageId} :
        /\ Cardinality(TicketsOf(m)) <= 1
        /\ \A i \in DeliveriesOf(m) :
            /\ ~deliveries[i].error
            /\ \E t \in TicketsOf(m) : deliveries[i].ticket_id = t.id
        /\ Cardinality({i \in DeliveriesOf(m) : deliveries[i].created}) <= 1
        /\ (IngestQuiet /\ DeliveriesOf(m) # {} /\ m \notin {t.message_id : t \in DemoTickets})
            => \E i \in DeliveriesOf(m) : deliveries[i].created

FillQuiet == \A w \in Workers : fill[w].pc = "idle"

\* C7: a run of refresh_embeddings during which the provider succeeds for
\* every entry reports updated_count equal to the number of entries that
\* had a NULL embedding (and non-empty text) before it, error_count 0, and
\* leaves no such entry without an embedding.
C7_BackfillFillsAll ==
    (lastFill.runs >= 1 /\ lastFill.failures = 0)
        => /\ lastFill.updated = lastFill.nullBefore
           /\ lastFill.errors = 0
           /\ (FillQuiet /\ ~lastFill.dirty)
                => \A e \in NullRows : FillText(e) = <<>>

C10_FailureCountedScanContinues ==
    (lastFill.runs >= 1 /\ lastFill.failures >= 1)
        => /\ lastFill.errors = lastFill.failures
           /\ lastFill.updated + lastFill.errors = lastFill.nullBefore

-----------------------------------------------------------------------------
(* /kb/ask: api_kb_ask and ask_qwen *)

\* the fixed texts of the service, each a short text of its own here
tStub1 == <<"s", "1">>
tStub2 == <<"s", "2">>
tStub3 == <<"s", "3">>
tAck == <<"a", "c", "k">>              \* "Здравствуйте! Получили ваше обращение. ..."
tUnavailable == <<"n", "a">>           \* "Ответ по вашему запросу временно недоступен. ..."
tReply == <<" ", "o", "k">>            \* a text of the completion model

_DEMO_STUB_PHRASES == <<tStub1, tStub2, tStub3>>

\* _demo_stub_reply(user_message): the phrase picked by hash(msg), h being
\* the hash value of this process for the message
demo_stub_reply(user_message, h) ==
    _DEMO_STUB_PHRASES[(h % Len(_DEMO_STUB_PHRASES)) + 1]

\* what the completion collaborator does when asked: it is switched off, it
\* cannot be reached, it answers with a body that holds no text, or it
\* answers with a text (empty, blank or not)
QwenReplies ==
    { [kind |-> "disabled", text |-> <<>>],
      [kind |-> "unreachable", text |-> <<>>],
      [kind |-> "none", text |-> <<>>],
      [kind |-> "text", text |-> <<>>],
      [kind |-> "text", text |-> <<" ">>],
      [kind |-> "text", text |-> tReply] }

\* did the completion model produce a text
Produced(qwen) == qwen.kind = "text" /\ Strip(qwen.text) # <<>>

\* ask_qwen(system_prompt, user_message): the model's stripped text, or the
\* demo stub whenever the model is off, fails or gives nothing
ask_qwen(system_prompt, user_message, qwen, h) ==
    IF Produced(qwen) THEN Strip(qwen.text)
    ELSE demo_stub_reply(user_message, h)

\* KbAskRequest: question of at least one character, 1 <= limit <= 10
AskLimitLo == 1
AskLimitHi == 10
KbAskRequestValid(question, limit) ==
    Len(question) >= 1 /\ limit >= AskLimitLo /\ limit <= AskLimitHi

AskLimits == {0, 2, 11}

AskResponse(answer, source_ids, fallback) ==
    [answer |-> answer, source_ids |-> source_ids, fallback |-> fallback]

\* the response of /kb/ask made of the completion model's own words only
AskAnswer_RawCompletion(question, entries, qwen, h) ==
    AskResponse(Strip(qwen.text), [i \in DOMAIN entries |-> entries[i].id],
                entries = <<>>)

\* api_kb_ask after the retrieval (app.py:488-532): the response for the
\* retrieved entries
AskAnswer(question, entries, qwen, h) ==
    LET source_ids == [i \in DOMAIN entries |-> entries[i].id]
        answer == ask_qwen(IF entries = <<>> THEN "no_kb" ELSE "kb", question,
                           qwen, h)
    IN  IF entries = <<>>
          THEN AskResponse(IF Strip(answer) # <<>> THEN Strip(answer) ELSE tAck,
                           <<>>, TRUE)
        ELSE IF answer # <<>>
          THEN AskResponse(answer, source_ids, FALSE)
        ELSE LET first == entries[1]
                 text == IF first.short_answer # <<>> THEN first.short_answer
                         ELSE Take(first.content, ShortAnswerChars)
             IN  AskResponse(IF Strip(text) # <<>> THEN Strip(text)
                             ELSE tUnavailable, source_ids, TRUE)

AskCall(question, limit, status, entries, trace, produced, r) ==
    [op |-> "ask", question |-> question, limit |-> limit, status |-> status,
     entries |-> entries, trace |-> trace, produced |-> produced,
     answer |-> r.answer, source_ids |-> r.source_ids, fallback |-> r.fallback]

NoResponse == AskResponse(<<>>, <<>>, FALSE)

\* POST /kb/ask {question, limit, use_vector}; `reply` is what the embedding
\* provider answers, `qwen` what the completion collaborator does
api_kb_ask(question, limit, use_vector, reply, qwen, h) ==
    /\ lastCall = NoCall
    /\ IF ~KbAskRequestValid(question, limit)
         THEN lastCall' = AskCall(question, limit, 422, <<>>, <<>>,
                                  Produced(qwen), NoResponse)
       ELSE IF Strip(question) = <<>>
         THEN lastCall' = AskCall(question, limit, 400, <<>>, <<>>,
                                  Produced(qwen), NoResponse)
       ELSE \E o \in search_knowledge_base(Strip(question), limit, use_vector,
                                           reply) :
            lastCall' =
                IF o.raised
                  THEN AskCall(question, limit, 500, <<>>, o.trace,
                               Produced(qwen), NoResponse)
                  ELSE AskCall(question, limit, 200, o.rows, o.trace,
                               Produced(qwen),
                               AskAnswer(Strip(question), o.rows, qwen, h))
    /\ UNCHANGED <<proc, outgoing,
                   kb, kbSeq, tickets, ticketSeq, emailLog, schema, now,
                   lastSearch, ingest, deliveries, fill, lastFill>>

\* the response of /kb/ask has been delivered
CallReturn ==
    /\ lastCall # NoCall
    /\ lastCall' = NoCall
    /\ UNCHANGED <<proc, outgoing,
                   kb, kbSeq, tickets, ticketSeq, emailLog, schema, now,
                   lastSearch, ingest, deliveries, fill, lastFill>>

InitAsk == Init

NextAsk ==
    \/ \E question \in Queries, limit \in AskLimits, qwen \in QwenReplies,
          h \in 0..2 :
        \/ api_kb_ask(question, limit, FALSE, <<>>, qwen, h)
        \/ \E reply \in EmbeddingReplies :
            api_kb_ask(question, limit, TRUE, reply, qwen, h)
    \/ CallReturn

SpecAsk == InitAsk /\ [][NextAsk]_vars

-----------------------------------------------------------------------------
(* _project_to_384 on its own *)

\* the lengths and the components of the vectors handed to _project_to_384:
\* component i of the vector (a, b) is (i * a + b) % 5
ProjectLengths == {0, 1, 2, 200, 383, 384, 385, 500}

ProjectInputs ==
    {[i \in 1..n |-> (i * a + b) % 5] : n \in ProjectLengths, a \in 0..3, b \in 0..4}

\* one call _project_to_384(values)
project_call(values) ==
    /\ lastCall' = [op |-> "project", values |-> values,
                    result |-> project_to_384(values)]
    /\ UNCHANGED <<proc, outgoing,
                   kb, kbSeq, tickets, ticketSeq, emailLog, schema, now,
                   lastSearch, ingest, deliveries, fill, lastFill>>

InitProject == InitIngest

NextProject == \E values \in ProjectInputs : project_call(values)

SpecProject == InitProject /\ [][NextProject]_vars

-----------------------------------------------------------------------------
(* Claims about embeddings and save-to-kb *)

C12_ProjectTo384 ==
    lastCall.op = "project"
        => /\ Len(lastCall.result) = EMBEDDING_DIM
           /\ \A i \in 1..EMBEDDING_DIM :
                lastCall.result[i] =
                    IF i <= Len(lastCall.values) THEN lastCall.values[i] ELSE 0

\* a 200-vector with non-zero components was padded with 184 zeros
C12_Witness ==
    /\ lastCall.op = "project"
    /\ Len(lastCall.values) = 200
    /\ lastCall.values[200] # 0
    /\ Len(lastCall.result) = EMBEDDING_DIM
    /\ lastCall.result[200] = lastCall.values[200]
    /\ lastCall.result[201] = 0

\* the row that the last save-to-kb request stored, if it stored one
SavedRows == {e \in kb : lastCall.op = "save" /\ e.id = lastCall.kb_id}

-----------------------------------------------------------------------------
(* Claims about /kb/ask *)

AskServed ==
    /\ lastCall.op = "ask"
    /\ Strip(lastCall.question) # <<>>
    /\ KbAskRequestValid(lastCall.question, lastCall.limit)

\* the text /kb/ask is to fall back on: the top entry's short_answer or, if
\* that is empty, the first 500 characters of its content
TopEntryText ==
    LET first == lastCall.entries[1]
    IN  IF first.short_answer # <<>> THEN first.short_answer
        ELSE Take(first.content, ShortAnswerChars)

\* C15: /kb/ask never returns an empty answer: for every question that is
\* not blank, every table and every behaviour of the completion
\* collaborator the request is served with a non-empty answer, and when
\* retrieval found nothing the response has no source ids and fallback true.
C15_AnswerNeverEmpty ==
    AskServed
        => /\ lastCall.status = 200
           /\ lastCall.answer # <<>>
           /\ lastCall.entries = <<>>
                => lastCall.source_ids = <<>> /\ lastCall.fallback

\* nothing retrieved, the collaborator gave an empty text, an answer came
C15_Witness ==
    /\ AskServed
    /\ lastCall.entries = <<>>
    /\ ~lastCall.produced
    /\ lastCall.answer # <<>>
    /\ lastCall.fallback

\* C16: when /kb/ask retrieved at least one entry and the completion
\* collaborator is off, unreachable or gives no text, the answer is the top
\* entry's short_answer (or the start of its content) and fallback is true;
\* fallback is false only for an answer the completion model produced.
C16_FallbackToTopEntry ==
    (AskServed /\ lastCall.status = 200 /\ lastCall.entries # <<>>)
        => /\ ~lastCall.produced
                => lastCall.answer = Strip(TopEntryText) /\ lastCall.fallback
           /\ ~lastCall.fallback => lastCall.produced

-----------------------------------------------------------------------------
(* Claims about the retrieval calls' inputs and order *)

\* the provider failed: no usable body, or a list of another length
ProviderFailed(reply) == reply = <<>> \/ reply[1].len # EMBEDDING_DIM

FailedReplies == {reply \in EmbeddingReplies : ProviderFailed(reply)}

\* a failure of the provider changes nothing in what search returns
SameAsLexical ==
    \A q \in Queries, lim \in Limits, reply \in FailedReplies :
        search_knowledge_base(q, lim, TRUE, reply)
            = search_knowledge_base(q, lim, FALSE, reply)

C18_LimitClamped ==
    IsRetrieval
        => /\ \A i \in DOMAIN lastSearch.trace :
                /\ lastSearch.trace[i].limit >= LimitLo
                /\ lastSearch.trace[i].limit <= LimitHi
           /\ Len(lastSearch.rows) <= ClampLimit(lastSearch.limit)

\* C19: an empty or blank query is turned away at once by every retrieval
\* entry point: no tier is attempted, the store is not queried and nothing
\* is returned.
C19_BlankQueryRejected ==
    (IsRetrieval /\ Strip(lastSearch.query) = <<>>)
        => lastSearch.trace = <<>> /\ lastSearch.rows = <<>>

\* the rank of a result row, in hundredths
RankOf(row) == row.rank[1]

\* row a comes before row b by score descending, then id ascending
ScoreThenId(a, b) ==
    \/ RankOf(a) > RankOf(b)
    \/ RankOf(a) = RankOf(b) /\ a.id < b.id

\* C20: the rows of the weighted tier are ordered by score descending and,
\* for equal scores, by id ascending; the entries that the LIMIT leaves out
\* all come after the returned ones in that order.
C20_WeightedTieBreakById ==
    (IsSearch /\ lastSearch.rows # <<>>
        /\ lastSearch.trace[Len(lastSearch.trace)].tier = "weighted")
        => LET rows == lastSearch.rows
               lex == PlainToTsQueryRussian(Strip(lastSearch.query))
               left == {e \in WeightedCandidates(Strip(lastSearch.query)) :
                            e.id \notin RowIds(rows)}
           IN  /\ \A i, j \in DOMAIN rows : i < j => ScoreThenId(rows[i], rows[j])
               /\ \A e \in left : \A i \in DOMAIN rows :
                    ScoreThenId(rows[i], KbRowToDict(e, <<TsRank(e, lex)>>))

\* the tier that answered the call
AnsweringTier == lastSearch.trace[Len(lastSearch.trace)].tier

\* the ids of the entries that the answering fallback tier could return
FallbackMatchIds ==
    IF AnsweringTier = "or_terms"
      THEN {e.id : e \in OrCandidates(QueryWords)}
      ELSE {e.id : e \in Holders(DecidingPattern)}

\* C21: the fallback tiers (OR of terms, combined substring, per-term
\* substring) give every returned entry the same constant score and return
\* the entries by id ascending, so that of the matching entries the ones
\* with the smallest ids are returned.
C21_FallbackOrderById ==
    (IsSearch /\ lastSearch.rows # <<>>
        /\ AnsweringTier \in {"or_terms", "substring", "per_term"})
        => LET rows == lastSearch.rows
           IN  /\ \A i \in DOMAIN rows : rows[i].rank = <<100>>
               /\ \A i, j \in DOMAIN rows : i < j => rows[i].id < rows[j].id
               /\ \A x \in FallbackMatchIds \ RowIds(rows) :
                    \A i \in DOMAIN rows : rows[i].id < x

-----------------------------------------------------------------------------
(* The bulk import of question/answer pairs: _seed_kb_from_xlsx.              *)

\* the rows a sheet can hold under its header: a pair, a pair whose question
\* is blank, and a second pair with the first one's question
SheetLines ==
    { [title |-> tKab, content |-> tAbCc, category |-> "account"],
      [title |-> <<" ">>, content |-> tBc, category |-> NoCategory],
      [title |-> tKab, content |-> tBc, category |-> NoCategory] }

MaxSheet == 2

Sheets ==
    UNION { [1..n -> SheetLines] : n \in 0..MaxSheet }

\* the loop over the sheet: a line whose stripped title or content is empty
\* is skipped, the others are kept with short = content[:500]
RECURSIVE SheetPairs(_)
SheetPairs(sheet) ==
    IF sheet = <<>>
      THEN <<>>
      ELSE LET title == Strip(sheet[1].title)
               content == Strip(sheet[1].content)
           IN  (IF title = <<>> \/ content = <<>>
                  THEN <<>>
                  ELSE << [title |-> title, content |-> content,
                           short |-> Take(content, ShortAnswerChars),
                           category |-> sheet[1].category] >>)
               \o SheetPairs(Tail(sheet))

\* DELETE FROM knowledge_base: the rows of the table that are left
SeedDelete(table) == {}

\* the observation of a finished import
SeedCall(pairs) ==
    [op |-> "seed", pairs |-> pairs, kbBefore |-> kb, seqBefore |-> kbSeq]

\* _seed_kb_from_xlsx(conn) on an autocommit connection, the work book
\* holding `sheet`: with no usable pair it returns, otherwise it deletes the
\* table's rows and inserts one row per pair, embedding NULL
_seed_kb_from_xlsx(sheet) ==
    /\ SearchIdle
    /\ now < MaxClock
    /\ LET pairs == SheetPairs(sheet)
       IN  /\ lastCall' = SeedCall(pairs)
           /\ IF pairs = <<>>
                THEN UNCHANGED <<kb, kbSeq, lastFill, fill>>
                ELSE /\ kb' = SeedDelete(kb) \union
                               { KbRow(kbSeq + i, pairs[i].title,
                                       pairs[i].content, pairs[i].short,
                                       pairs[i].category, TRUE,
                                       NullEmbedding, now) :
                                   i \in DOMAIN pairs }
                     /\ kbSeq' = kbSeq + Len(pairs)
                     /\ lastFill' = [lastFill EXCEPT !.dirty = TRUE]
                     /\ fill' = [w \in Workers |->
                                   [fill[w] EXCEPT !.inARow = FALSE]]
    /\ now' = now + 1
    /\ UNCHANGED <<proc, outgoing,
                   tickets, ticketSeq, emailLog, schema, lastSearch, ingest,
                   deliveries>>

InitImport == Init

NextImport ==
    \/ \E sheet \in Sheets : _seed_kb_from_xlsx(sheet)
    \/ \E t \in tickets, enc \in EncoderReplies :
            api_save_ticket_to_kb(t.id, <<>>, enc)

SpecImport == InitImport /\ [][NextImport]_vars

\* C23: knowledge-base entries are never hard-deleted by normal operation
\* (save-to-kb, bulk import): an entry of the table is an entry of the table,
\* under the same id, after every step, and the bulk import adds one entry
\* per pair while keeping the entries that exist.
C23_EntriesNeverDeleted ==
    [][ /\ \A e \in kb : \E f \in kb' : f.id = e.id
        /\ (lastCall'.op = "seed" /\ lastCall' # lastCall)
             => Cardinality(kb') = Cardinality(kb) + Len(lastCall'.pairs) ]_vars

-----------------------------------------------------------------------------
(* The draft of the MVP flow: _parse_confidence_from_reply,                 *)
(* _get_draft_from_kb_qwen, _qwen_needs_operator, _run_ai_stub (app.py).    *)

\* str.upper() on the letters that the replies of this model hold
Upper(c) ==
    CASE c = "c" -> "C"
      [] c = "o" -> "O"
      [] c = "n" -> "N"
      [] c = "f" -> "F"
      [] c = "i" -> "I"
      [] c = "d" -> "D"
      [] c = "e" -> "E"
      [] c = "a" -> "A"
      [] c = "b" -> "B"
      [] c = "k" -> "K"
      [] c = "t" -> "T"
      [] OTHER -> c

UpperStr(s) == [i \in 1..Len(s) |-> Upper(s[i])]

\* str.startswith
StartsWith(s, prefix) ==
    Len(s) >= Len(prefix) /\ SubSeq(s, 1, Len(prefix)) = prefix

\* s[n:]
Drop(s, n) == SubSeq(s, n + 1, Len(s))

\* str.split(sep) for a separator of one character: the pieces, the empty
\* ones included
RECURSIVE SplitOn(_, _, _, _)
SplitOn(s, sep, i, cur) ==
    IF i > Len(s) THEN <<cur>>
    ELSE IF s[i] = sep THEN <<cur>> \o SplitOn(s, sep, i + 1, <<>>)
    ELSE SplitOn(s, sep, i + 1, Append(cur, s[i]))

\* "\n".join(lines)
RECURSIVE JoinLines(_)
JoinLines(lines) ==
    IF lines = <<>> THEN <<>>
    ELSE IF Len(lines) = 1 THEN lines[1]
    ELSE lines[1] \o <<"\n">> \o JoinLines(Tail(lines))

\* str.split()[0] of a stripped, non-empty string: its first run of
\* characters that are not white space
RECURSIVE FirstToken(_)
FirstToken(s) ==
    IF s = <<>> \/ IsSpace(Head(s)) THEN <<>>
    ELSE <<Head(s)>> \o FirstToken(Tail(s))

IsDigit(c) == c \in {"0", "1", "2", "3", "4", "5", "6", "7", "8", "9"}

DigitValue(c) ==
    CASE c = "0" -> 0 [] c = "1" -> 1 [] c = "2" -> 2 [] c = "3" -> 3
      [] c = "4" -> 4 [] c = "5" -> 5 [] c = "6" -> 6 [] c = "7" -> 7
      [] c = "8" -> 8 [] c = "9" -> 9

RECURSIVE DigitsValue(_)
DigitsValue(ds) ==
    IF ds = <<>> THEN 0
    ELSE 10 * DigitsValue(SubSeq(ds, 1, Len(ds) - 1)) + DigitValue(ds[Len(ds)])

\* does int(tok) return (a sign, then digits) or raise ValueError
IntParses(tok) ==
    LET ds == IF tok # <<>> /\ Head(tok) \in {"+", "-"} THEN Tail(tok) ELSE tok
    IN  ds # <<>> /\ \A i \in DOMAIN ds : IsDigit(ds[i])

\* int(tok) of a token that parses
IntOf(tok) ==
    IF Head(tok) = "-" THEN 0 - DigitsValue(Tail(tok))
    ELSE IF Head(tok) = "+" THEN DigitsValue(Tail(tok))
    ELSE DigitsValue(tok)

tConfidence == <<"C", "O", "N", "F", "I", "D", "E", "N", "C", "E", ":">>

\* the index of the slice s[10:] that is meant to skip the marker
ConfidenceSkip == 10

DefaultConfidence == 50

\* the loop of _parse_confidence_from_reply over the lines from the i-th on:
\* the lines kept and the confidence, `acc` being the result so far
RECURSIVE ParseLines(_, _, _)
ParseLines(lines, i, acc) ==
    IF i > Len(lines) THEN acc
    ELSE LET line == lines[i]
             st == Strip(line)
         IN  IF StartsWith(UpperStr(st), tConfidence)
               THEN LET rest == Strip(Drop(st, ConfidenceSkip))
                        tok == FirstToken(rest)
                    IN  ParseLines(lines, i + 1,
                          IF rest = <<>>
                            THEN [acc EXCEPT !.confidence = DefaultConfidence]
                          ELSE IF IntParses(tok)
                            THEN [acc EXCEPT !.confidence =
                                     Max(0, Min(100, IntOf(tok)))]
                          ELSE acc)
               ELSE ParseLines(lines, i + 1,
                               [acc EXCEPT !.clean = Append(@, line)])

\* _parse_confidence_from_reply(reply) -> (text, confidence)
_parse_confidence_from_reply(reply) ==
    IF Strip(reply) = <<>>
      THEN [text |-> <<>>, confidence |-> DefaultConfidence]
      ELSE LET r == ParseLines(SplitOn(Strip(reply), "\n", 1, <<>>), 1,
                               [clean |-> <<>>,
                                confidence |-> DefaultConfidence])
           IN  [text |-> Strip(JoinLines(r.clean)), confidence |-> r.confidence]

\* the lines a reply of the completion model is made of
ReplyLines ==
    { <<"o", "k">>,
      <<"C", "O", "N", "F", "I", "D", "E", "N", "C", "E", ":", " ", "8", "5">>,
      <<"c", "o", "n", "f", "i", "d", "e", "n", "c", "e", ":", "7">>,
      <<"C", "o", "n", "f", "i", "d", "e", "n", "c", "e", ":", " ", "1", "5", "0">>,
      <<"C", "O", "N", "F", "I", "D", "E", "N", "C", "E", ":", " ", "-", "3">>,
      <<"C", "O", "N", "F", "I", "D", "E", "N", "C", "E", ":", " ", "n", "o">>,
      <<"C", "O", "N", "F", "I", "D", "E", "N", "C", "E", ":">>,
      <<>>,
      <<" ", "C", "O", "N", "F", "I", "D", "E", "N", "C", "E", ":", " ", "4", "0", " ", "o", "k">> }

MaxReplyLines == 3

ParseInputs ==
    { JoinLines(ls) : ls \in UNION { [1..n -> ReplyLines] : n \in 0..MaxReplyLines } }

\* the observation of a call of _parse_confidence_from_reply
ParseCall(reply) ==
    LET r == _parse_confidence_from_reply(reply)
    IN  [op |-> "parse", reply |-> reply, text |-> r.text,
         confidence |-> r.confidence]

parse_call(reply) ==
    /\ lastCall = NoCall
    /\ lastCall' = ParseCall(reply)
    /\ UNCHANGED <<kb, kbSeq, tickets, ticketSeq, emailLog, schema, now,
                   lastSearch, ingest, deliveries, fill, lastFill, proc,
                   outgoing>>

InitParse == InitIngest

NextParse == \E reply \in ParseInputs : parse_call(reply)

SpecParse == InitParse /\ [][NextParse]_vars

\* the N of a line "CONFIDENCE: N": the integer that follows the marker
MarkedValue(line) ==
    LET st == Strip(line)
        tok == FirstToken(Strip(Drop(st, Len(tConfidence))))
    IN  IF StartsWith(UpperStr(st), tConfidence) /\ IntParses(tok)
          THEN <<IntOf(tok)>>
          ELSE <<>>

\* the values N of the lines "CONFIDENCE: N" of a reply, in their order
MarkedValues(reply) ==
    LET lines == SplitOn(Strip(reply), "\n", 1, <<>>)
        F[i \in 0..Len(lines)] ==
            IF i = 0 THEN <<>> ELSE F[i - 1] \o MarkedValue(lines[i])
    IN  F[Len(lines)]

\* C25: for a reply that holds a line "CONFIDENCE: N" the function returns
\* the text without that line and the confidence min(100, max(0, N)); the
\* default 50 is returned only when no line holds a parsable integer.
C25_ConfidenceParsed ==
    lastCall.op = "parse"
        => LET ns == MarkedValues(lastCall.reply)
           IN  /\ ns # <<>>
                    => lastCall.confidence = Min(100, Max(0, ns[Len(ns)]))
               /\ ns = <<>> => lastCall.confidence = DefaultConfidence
               /\ \A i \in DOMAIN SplitOn(lastCall.text, "\n", 1, <<>>) :
                    MarkedValue(SplitOn(lastCall.text, "\n", 1, <<>>)[i]) = <<>>

-----------------------------------------------------------------------------
(* The draft and the routing of one e-mail: _get_draft_from_kb_qwen,        *)
(* _qwen_needs_operator, _run_ai_stub.                                      *)

tDraftBlank == <<"a", "c", "k", "1">>    \* "... Передали оператору, ответим в ближайшее время."
tDraftNoText == <<"a", "c", "k", "2">>   \* "... Ответим в ближайшее время."
tDraftNoReply == <<"a", "c", "k", "3">>  \* "... передали его оператору. ..."

QuestionChars == 1500
QuestionForKbChars == 2000
KbFloor == 51
MissingRankConfidence == 75
DraftLimit == 5

Draft(text, confidence, from_kb) ==
    [draft |-> text, confidence |-> confidence, from_kb |-> from_kb]

\* confidence_pct of the first entry: the rank held to [0.0, 1.0] as a
\* percentage, 75 with no rank, and not below 51
KbConfidence_NoFloor(raw_rank) ==
    IF raw_rank # NoRank THEN Min(100, Max(0, raw_rank[1]))
    ELSE MissingRankConfidence

KbConfidence(raw_rank) ==
    Max(IF raw_rank # NoRank THEN Min(100, Max(0, raw_rank[1]))
        ELSE MissingRankConfidence,
        KbFloor)

\* _get_draft_from_kb_qwen after its retrieval: the draft for the stripped
\* question and the entries found
DraftFromEntries(question, entries, qwen, h) ==
    IF entries = <<>>
      THEN LET answer == ask_qwen("no_kb", Take(question, QuestionChars),
                                  qwen, h)
           IN  IF Strip(answer) # <<>>
                 THEN LET p == _parse_confidence_from_reply(answer)
                      IN  IF p.text # <<>>
                            THEN Draft(p.text, p.confidence, FALSE)
                            ELSE Draft(tDraftNoText, p.confidence, FALSE)
                 ELSE Draft(tDraftNoReply, DefaultConfidence, FALSE)
      ELSE LET answer == ask_qwen("kb", question, qwen, h)
               first == entries[1]
               confidence_pct == KbConfidence(first.rank)
               fallback == IF first.short_answer # <<>> THEN first.short_answer
                           ELSE Take(first.content, ShortAnswerChars)
           IN  IF answer # <<>>
                 THEN Draft(Strip(answer), confidence_pct, TRUE)
               ELSE IF fallback # <<>>
                 THEN Draft(Strip(fallback), confidence_pct, TRUE)
               ELSE Draft(tUnavailable, DefaultConfidence, TRUE)

tYes == <<"D", "A">>        \* "ДА" / "YES"
tNo == <<"N", "E", "T">>    \* "НЕТ" / "NO"

\* `pat in text`
Contains(text, pat) ==
    \E i \in 1..(Len(text) - Len(pat) + 1) :
        SubSeq(text, i, i + Len(pat) - 1) = pat

\* _qwen_needs_operator(text): "yes", "no" or "none"
_qwen_needs_operator(text, qwen, h) ==
    IF Strip(text) = <<>> THEN "no"
    ELSE LET reply == ask_qwen("needs_operator", Strip(text), qwen, h)
             first_line == UpperStr(Strip(SplitOn(reply, "\n", 1, <<>>)[1]))
         IN  IF Contains(first_line, tYes) THEN "yes"
             ELSE IF Contains(first_line, tNo) THEN "no"
             ELSE "none"

\* the words of an incident ("не работает", "ошибка", ...)
IncidentWords == { <<"z", "z">> }

AiResult(subject, body_preview, needs_base, d) ==
    [subject |-> subject, body_preview |-> body_preview,
     confidence_pct |-> d.confidence, from_kb |-> d.from_kb,
     needs_base |-> needs_base,
     needs_attention |-> needs_base \/ d.confidence <= DefaultConfidence,
     draft_answer |-> d.draft]

\* the e-mails of the mail box: subject and body_preview
Mails ==
    { [subject |-> tKab, body_preview |-> tAbCc],
      [subject |-> <<>>, body_preview |-> <<" ">>],
      [subject |-> tCca, body_preview |-> <<"z", "z">>],
      [subject |-> <<"a", "b">>, body_preview |-> <<>>] }

\* what the completion model answers when asked for a draft
DraftReplies ==
    { [kind |-> "disabled", text |-> <<>>],
      [kind |-> "text", text |-> tReply],
      [kind |-> "text", text |-> <<"o", "k", "\n", "C", "O", "N", "F", "I", "D", "E", "N", "C", "E", ":", " ", "3", "0">>],
      [kind |-> "text", text |-> <<"C", "O", "N", "F", "I", "D", "E", "N", "C", "E", ":", " ", "8", "5">>] }

\* what it answers when asked whether an operator is needed
NeedReplies ==
    { [kind |-> "disabled", text |-> <<>>],
      [kind |-> "text", text |-> <<"d", "a">>],
      [kind |-> "text", text |-> <<"n", "e", "t", "\n", "d", "a">>] }

\* _run_ai_stub(email_item): the results it can return, and "raised" when
\* the retrieval raises
_run_ai_stub(mail, qd, qn, h) ==
    LET subject == Strip(mail.subject)
        body_preview == Strip(mail.body_preview)
        text == LowerStr(Strip(mail.subject) \o <<" ">> \o Strip(mail.body_preview))
        question_for_kb == Take(Strip(Strip(mail.subject) \o <<" ">> \o
                                      Strip(mail.body_preview)),
                                QuestionForKbChars)
        needs_attention_fallback == \E word \in IncidentWords : Contains(text, word)
        asked == _qwen_needs_operator(question_for_kb, qn, h)
        needs_base == IF asked = "none" THEN needs_attention_fallback
                      ELSE asked = "yes"
    IN  IF question_for_kb = <<>>
          THEN { [raised |-> FALSE, entries |-> <<>>,
                  result |-> AiResult(subject, body_preview, needs_base,
                                Draft(tDraftBlank, DefaultConfidence, FALSE))] }
          ELSE { IF o.raised
                   THEN [raised |-> TRUE, entries |-> <<>>,
                         result |-> AiResult(subject, body_preview, FALSE,
                                      Draft(<<>>, 0, FALSE))]
                   ELSE [raised |-> FALSE, entries |-> o.rows,
                         result |-> AiResult(subject, body_preview, needs_base,
                                      DraftFromEntries(question_for_kb, o.rows,
                                                       qd, h))] :
                 o \in search_knowledge_base(question_for_kb, DraftLimit,
                                             FALSE, <<>>) }

\* the observation of a call of _run_ai_stub
AiCall(mail, a) ==
    [op |-> "ai", mail |-> mail, raised |-> a.raised, entries |-> a.entries,
     result |-> a.result]

run_ai_stub_call(mail, qd, qn, h) ==
    /\ lastCall = NoCall
    /\ \E a \in _run_ai_stub(mail, qd, qn, h) : lastCall' = AiCall(mail, a)
    /\ UNCHANGED <<kb, kbSeq, tickets, ticketSeq, emailLog, schema, now,
                   lastSearch, ingest, deliveries, fill, lastFill, proc,
                   outgoing>>

InitDraft == Init

NextDraft ==
    \/ \E mail \in Mails, qd \in DraftReplies, qn \in NeedReplies, h \in 0..2 :
            run_ai_stub_call(mail, qd, qn, h)
    \/ CallReturn

SpecDraft == InitDraft /\ [][NextDraft]_vars

\* the ranks a first entry can carry: none, negative, small, above 1.0
SomeRanks == {NoRank, <<-100>>, <<0>>, <<24>>, <<61>>, <<100>>, <<150>>}

\* C30: when the retrieval returned at least one entry (from_kb true) the
\* confidence of the draft is at least 51 whatever the rank of the first
\* entry, so that _run_ai_stub never hands a knowledge-base draft to the
\* operator by the rule "confidence <= 50".
C30_KbDraftConfidenceFloor ==
    /\ \A r \in SomeRanks : KbConfidence(r) >= KbFloor
    /\ (lastCall.op = "ai" /\ ~lastCall.raised /\ lastCall.entries # <<>>)
         => /\ lastCall.result.from_kb
            /\ lastCall.result.confidence_pct >= KbFloor
            /\ lastCall.result.confidence_pct <= 100
            /\ lastCall.result.needs_attention = lastCall.result.needs_base

\* a draft made from an entry of rank below 0.51 whose e-mail needs no operator
C30_Witness ==
    /\ lastCall.op = "ai" /\ ~lastCall.raised /\ lastCall.entries # <<>>
    /\ lastCall.entries[1].rank # NoRank
    /\ lastCall.entries[1].rank[1] < KbFloor
    /\ ~lastCall.result.needs_attention

-----------------------------------------------------------------------------
(* POST /mvp/process-latest and POST /tickets/{ticket_id}/reply, statement  *)
(* by statement: each worker serves one request at a time, and the          *)
(* statements of two workers interleave.                                    *)

MaxRequests == 3     \* requests that are carried past their first check

\* the requests carried past their first check so far
Carried ==
    LET F[S \in SUBSET Workers] ==
            IF S = {} THEN 0
            ELSE LET w == CHOOSE w \in S : TRUE
                 IN  F[S \ {w}] + proc[w].served
                     + (IF proc[w].pc # "idle" THEN 1 ELSE 0)
    IN  F[Workers]

\* a worker goes back to waiting for a request
Served(w) == [IdleRequest EXCEPT !.served = proc[w].served + 1]

\* the e-mail that fetch_recent_emails(limit=1) returns
LatestMail == [subject |-> tKab, body_preview |-> tAbCc]

\* what fetch_recent_emails returns: nothing, an error item, or one e-mail
Inboxes == {"empty", "error", "mail"}

\* SELECT 1 FROM email_log WHERE message_id = %s AND direction = 'incoming'
incoming_email_already_processed(message_id) ==
    message_id # NoMessageId /\ emailLog[message_id] > 0

\* the observation of a finished request of process-latest
ProcessCall(w, status, message_id, ticket_id, send_ok) ==
    [op |-> "process", worker |-> w, status |-> status,
     message_id |-> message_id, ticket_id |-> ticket_id, send_ok |-> send_ok,
     logged |-> Len(outgoing)]

\* a row of email_log with direction = 'outgoing'
OutgoingRow(ticket_id, raw_to, in_reply_to, ok) ==
    [ticket_id |-> ticket_id, raw_to |-> raw_to, in_reply_to |-> in_reply_to,
     send_status |-> IF ok THEN "ok" ELSE "error"]

\* api_mvp_process_latest up to the check of the e-mail's message_id
ProcessCheck(w, has_operator, inbox, m) ==
    /\ proc[w].pc = "idle"
    /\ IF ~has_operator
         THEN /\ lastCall' = ProcessCall(w, 400, NoMessageId, 0, FALSE)
              /\ proc' = proc
       ELSE IF inbox = "empty"
         THEN /\ lastCall' = ProcessCall(w, 404, NoMessageId, 0, FALSE)
              /\ proc' = proc
       ELSE IF inbox = "error"
         THEN /\ lastCall' = ProcessCall(w, 503, NoMessageId, 0, FALSE)
              /\ proc' = proc
       ELSE IF incoming_email_already_processed(m)
         THEN /\ lastCall' = ProcessCall(w, 409, m, 0, FALSE)
              /\ proc' = proc
       ELSE /\ Carried < MaxRequests
            /\ lastCall' = lastCall
            /\ proc' = [proc EXCEPT ![w] = [@ EXCEPT !.pc = "select",
                                                      !.message_id = m]]
    /\ UNCHANGED <<kb, kbSeq, tickets, ticketSeq, emailLog, schema, now,
                   lastSearch, ingest, deliveries, fill, lastFill, outgoing>>

\* create_or_update_ticket_from_email: SELECT id FROM tickets WHERE message_id
ProcessSelect(w) ==
    /\ proc[w].pc = "select"
    /\ LET m == proc[w].message_id
       IN  IF m # NoMessageId /\ \E t \in tickets : t.message_id = m
             THEN LET t == CHOOSE t \in tickets : t.message_id = m
                  IN  proc' = [proc EXCEPT ![w] = [@ EXCEPT !.pc = "log",
                                                          !.ticket_id = t.id]]
             ELSE proc' = [proc EXCEPT ![w] = [@ EXCEPT !.pc = "insert"]]
    /\ UNCHANGED <<kb, kbSeq, tickets, ticketSeq, emailLog, schema, now,
                   lastSearch, ingest, deliveries, fill, lastFill, lastCall,
                   outgoing>>

\* create_or_update_ticket_from_email: INSERT INTO tickets ... RETURNING id;
\* the violation of UNIQUE (message_id) ends the request with an error
ProcessInsert(w) ==
    /\ proc[w].pc = "insert"
    /\ ticketSeq' = ticketSeq + 1
    /\ IF UniqueViolation(proc[w].message_id)
         THEN /\ tickets' = tickets
              /\ lastCall' = ProcessCall(w, 500, proc[w].message_id, 0, FALSE)
              /\ proc' = [proc EXCEPT ![w] = Served(w)]
         ELSE /\ tickets' = tickets \union
                    {TicketRow(ticketSeq + 1, proc[w].message_id, "new",
                               LatestMail.subject, LatestMail.body_preview,
                               NoCategory)}
              /\ lastCall' = lastCall
              /\ proc' = [proc EXCEPT ![w] = [@ EXCEPT !.pc = "log",
                                                       !.ticket_id = ticketSeq + 1]]
    /\ UNCHANGED <<kb, kbSeq, emailLog, schema, now, lastSearch, ingest,
                   deliveries, fill, lastFill, outgoing>>

\* _ingest_single_email: create_email_log(..., direction="incoming")
ProcessLog(w) ==
    /\ proc[w].pc = "log"
    /\ emailLog' = [emailLog EXCEPT ![proc[w].message_id] = @ + 1]
    /\ proc' = [proc EXCEPT ![w] = [@ EXCEPT !.pc = "ai"]]
    /\ UNCHANGED <<kb, kbSeq, tickets, ticketSeq, schema, now, lastSearch,
                   ingest, deliveries, fill, lastFill, lastCall, outgoing>>

\* set_ai_result(ticket_id, ai_result): the UPDATE of the ticket's row
set_ai_result(ticket_id, ai_result) ==
    {IF t.id = ticket_id
       THEN [t EXCEPT !.ai_suggested_answer = ai_result.draft_answer,
                      !.needs_attention = ai_result.needs_attention,
                      !.status = "drafted",
                      !.updated_at = now]
       ELSE t : t \in tickets}

\* ai_result = _run_ai_stub(latest_email); set_ai_result(ticket_id, ai_result)
ProcessAi(w, qd, qn) ==
    /\ proc[w].pc = "ai"
    /\ \E a \in _run_ai_stub(LatestMail, qd, qn, 0) :
        IF a.raised
          THEN /\ tickets' = tickets
               /\ lastCall' = ProcessCall(w, 500, proc[w].message_id,
                                          proc[w].ticket_id, FALSE)
               /\ proc' = [proc EXCEPT ![w] = Served(w)]
          ELSE /\ tickets' = set_ai_result(proc[w].ticket_id, a.result)
               /\ lastCall' = lastCall
               /\ proc' = [proc EXCEPT ![w] = [@ EXCEPT !.pc = "notify"]]
    /\ UNCHANGED <<kb, kbSeq, ticketSeq, emailLog, schema, now, lastSearch,
                   ingest, deliveries, fill, lastFill, outgoing>>

\* send_email(operator_email, ...), create_email_log(direction="outgoing"),
\* and the response
ProcessNotify(w, ok) ==
    /\ proc[w].pc = "notify"
    /\ outgoing' = Append(outgoing,
            OutgoingRow(proc[w].ticket_id, "operator", proc[w].message_id, ok))
    /\ lastCall' = [ProcessCall(w, 200, proc[w].message_id, proc[w].ticket_id,
                                ok) EXCEPT !.logged = Len(outgoing) + 1]
    /\ proc' = [proc EXCEPT ![w] = Served(w)]
    /\ UNCHANGED <<kb, kbSeq, tickets, ticketSeq, emailLog, schema, now,
                   lastSearch, ingest, deliveries, fill, lastFill>>

\* the observation of a finished request of /tickets/{ticket_id}/reply
ReplyCall(w, status, ticket_id, logged) ==
    [op |-> "reply", worker |-> w, status |-> status, ticket_id |-> ticket_id,
     logged |-> logged]

UnknownTicket == 99

\* api_reply_ticket: get_ticket(ticket_id), 404 without a row
ReplyGet(w, ticket_id) ==
    /\ proc[w].pc = "idle"
    /\ IF \E t \in tickets : t.id = ticket_id
         THEN /\ Carried < MaxRequests
              /\ proc' = [proc EXCEPT ![w] = [@ EXCEPT !.pc = "send",
                                                       !.ticket_id = ticket_id]]
              /\ lastCall' = lastCall
         ELSE /\ proc' = proc
              /\ lastCall' = ReplyCall(w, 404, ticket_id, Len(outgoing))
    /\ UNCHANGED <<kb, kbSeq, tickets, ticketSeq, emailLog, schema, now,
                   lastSearch, ingest, deliveries, fill, lastFill, outgoing>>

\* where the request goes after the e-mail log row is written: a failed
\* send raises 503, a successful one goes on to mark_ticket_sent
AfterSend_AlwaysMark(ok) == "mark"

AfterSend(ok) == IF ok THEN "mark" ELSE "idle"

\* api_reply_ticket: send_email(to_email, subject, req.body), then
\* create_email_log(direction="outgoing", send_status=...), then 503 if the
\* send failed
ReplySend(w, ok) ==
    /\ proc[w].pc = "send"
    /\ outgoing' = Append(outgoing,
            OutgoingRow(proc[w].ticket_id, "client", NoMessageId, ok))
    /\ IF AfterSend(ok) = "idle"
         THEN /\ lastCall' = ReplyCall(w, 503, proc[w].ticket_id,
                                       Len(outgoing) + 1)
              /\ proc' = [proc EXCEPT ![w] = Served(w)]
         ELSE /\ lastCall' = lastCall
              /\ proc' = [proc EXCEPT ![w] = [@ EXCEPT !.pc = "mark",
                                                       !.send_ok = ok]]
    /\ UNCHANGED <<kb, kbSeq, tickets, ticketSeq, emailLog, schema, now,
                   lastSearch, ingest, deliveries, fill, lastFill>>

\* the body of the operator's reply
ReplyBody == tBb

\* mark_ticket_sent(ticket_id, final_answer): the UPDATE of the ticket's row
mark_ticket_sent(ticket_id, final_answer) ==
    {IF t.id = ticket_id
       THEN [t EXCEPT !.answer = final_answer, !.status = "sent",
                      !.is_resolved = TRUE, !.updated_at = now]
       ELSE t : t \in tickets}

\* api_reply_ticket: mark_ticket_sent(ticket_id, req.body) and the response
ReplyMark(w) ==
    /\ proc[w].pc = "mark"
    /\ tickets' = mark_ticket_sent(proc[w].ticket_id, ReplyBody)
    /\ lastCall' = ReplyCall(w, 200, proc[w].ticket_id, Len(outgoing))
    /\ proc' = [proc EXCEPT ![w] = Served(w)]
    /\ UNCHANGED <<kb, kbSeq, ticketSeq, emailLog, schema, now, lastSearch,
                   ingest, deliveries, fill, lastFill, outgoing>>

\* the service with its two demo tickets and one entry in the knowledge base
InitMvp ==
    /\ InitCommon
    /\ kb = {KbRow(1, tKab, tAbCc, tAbCc, "account", TRUE, NullEmbedding, 0)}
    /\ kbSeq = 1
    /\ schema = [embedding |-> TRUE, search_vector |-> TRUE]

NextMvp ==
    \/ \E w \in Workers, has_operator \in BOOLEAN, inbox \in Inboxes,
          m \in {"<m1@x>", NoMessageId} :
            ProcessCheck(w, has_operator, inbox, m)
    \/ \E w \in Workers : ProcessSelect(w)
    \/ \E w \in Workers : ProcessInsert(w)
    \/ \E w \in Workers : ProcessLog(w)
    \/ \E w \in Workers, qd \in {[kind |-> "disabled", text |-> <<>>]},
          qn \in {[kind |-> "text", text |-> <<"d", "a">>]} :
            ProcessAi(w, qd, qn)
    \/ \E w \in Workers, ok \in BOOLEAN : ProcessNotify(w, ok)
    \/ \E w \in Workers, ticket_id \in {1, 3, UnknownTicket} :
            ReplyGet(w, ticket_id)
    \/ \E w \in Workers, ok \in BOOLEAN : ReplySend(w, ok)
    \/ \E w \in Workers : ReplyMark(w)

SpecMvp == InitMvp /\ [][NextMvp]_vars

\* the requests of process-latest that ran the AI step for message_id m and
\* notified the operator
Notifications(m) ==
    {i \in DOMAIN outgoing :
        outgoing[i].raw_to = "operator" /\ outgoing[i].in_reply_to = m}

\* C24: process-latest processes an e-mail of a given message_id at most
\* once: two calls, concurrent or not, never both run the AI step and notify
\* the operator for it.
C24_ProcessedAtMostOnce ==
    \A m \in MessageIds \ {NoMessageId} : Cardinality(Notifications(m)) <= 1

\* C26: the status of a ticket never regresses: once a ticket is 'sent'
\* (is_resolved TRUE), no later or concurrent set_ai_result sets it back to
\* 'drafted'.
C26_SentNeverRedrafted ==
    [][ \A t \in tickets : \A u \in tickets' :
            (t.status = "sent" /\ t.is_resolved /\ u.id = t.id)
                => u.status # "drafted" ]_vars

\* the outgoing rows of the replies to the client of a ticket
ClientRows(ticket_id, status) ==
    {i \in DOMAIN outgoing :
        /\ outgoing[i].raw_to = "client"
        /\ outgoing[i].ticket_id = ticket_id
        /\ outgoing[i].send_status = status}

\* C27: api_reply_ticket marks a ticket as sent only after send_email
\* succeeded; when the send fails the ticket is left as it is, exactly one
\* outgoing email_log row with send_status 'error' is written and the
\* answer is 503; for an unknown ticket the answer is 404 and nothing is
\* sent or logged.
C27_ReplyMarksSentOnlyAfterSend ==
    [][ /\ \A u \in tickets' \ tickets :
              u.status = "sent" => ClientRows(u.id, "ok") # {}
        /\ (lastCall' # lastCall /\ lastCall'.op = "reply"
                /\ lastCall'.status = 503)
              => /\ tickets' = tickets
                 /\ outgoing' = Append(outgoing,
                        OutgoingRow(lastCall'.ticket_id, "client",
                                    NoMessageId, FALSE))
        /\ (Len(outgoing') > Len(outgoing)
                /\ outgoing'[Len(outgoing')].raw_to = "client"
                /\ outgoing'[Len(outgoing')].send_status = "error")
              => /\ lastCall'.op = "reply" /\ lastCall'.status = 503
                 /\ proc'[lastCall'.worker].pc = "idle"
        /\ (lastCall' # lastCall /\ lastCall'.op = "reply"
                /\ lastCall'.status = 404)
              => /\ tickets' = tickets
                 /\ outgoing' = outgoing
                 /\ ~\E t \in tickets : t.id = lastCall'.ticket_id ]_vars

\* a reply whose send failed has been answered with 503
C27_Witness ==
    /\ lastCall.op = "reply" /\ lastCall.status = 503
    /\ ClientRows(lastCall.ticket_id, "error") # {}
    /\ \E t \in tickets : t.id = lastCall.ticket_id /\ t.status # "sent"

-----------------------------------------------------------------------------
(* PATCH /tickets/{ticket_id}: update_ticket (repositories.py).             *)

allowed_AndSubject ==
    {"client_name", "phone", "location_object", "serial_numbers",
     "device_type", "question", "answer", "status", "needs_attention",
     "is_resolved", "subject"}

allowed ==
    {"client_name", "phone", "location_object", "serial_numbers",
     "device_type", "question", "answer", "status", "needs_attention",
     "is_resolved"}

\* safe_updates = {k: v for k, v in updates.items() if k in allowed}
safe_updates(updates) ==
    [k \in DOMAIN updates \cap allowed |-> updates[k]]

\* the dictionaries handed to update_ticket: empty, of whitelisted keys, of
\* other keys, and mixed
UpdateInputs ==
    { <<>>,
      "status" :> "closed",
      "answer" :> tBb @@ "is_resolved" :> TRUE,
      "subject" :> tBb,
      "subject" :> tBb @@ "question" :> tBc,
      "id" :> 7 @@ "message_id" :> "<m1@x>" @@ "updated_at" :> 9,
      "needs_attention" :> TRUE @@ "phone" :> tBb @@ "client_email" :> "x" }

\* UPDATE tickets SET <assignments>, updated_at = %s WHERE id = %s
UpdateRow(t, safe, at) ==
    [f \in DOMAIN t |->
        IF f \in DOMAIN safe THEN safe[f]
        ELSE IF f = "updated_at" THEN at
        ELSE t[f]]

\* the observation of a finished call of update_ticket
UpdateCall(ticket_id, updates, found, at) ==
    [op |-> "update", ticket_id |-> ticket_id, updates |-> updates,
     found |-> found, at |-> at]

\* update_ticket(ticket_id, updates), behind api_update_ticket; the clock
\* has moved on since the row was last written
update_ticket(ticket_id, updates) ==
    /\ now < MaxClock
    /\ now' = now + 1
    /\ LET safe == safe_updates(updates)
       IN  IF updates = <<>> \/ DOMAIN safe = {}
             THEN tickets' = tickets
             ELSE tickets' = {IF t.id = ticket_id
                                THEN UpdateRow(t, safe, now + 1)
                                ELSE t : t \in tickets}
    /\ lastCall' = UpdateCall(ticket_id, updates,
                              \E t \in tickets : t.id = ticket_id, now + 1)
    /\ UNCHANGED <<kb, kbSeq, ticketSeq, emailLog, schema, lastSearch, ingest,
                   deliveries, fill, lastFill, proc, outgoing>>

InitUpdate == InitMvp

NextUpdate ==
    \E ticket_id \in {1, 2, UnknownTicket}, updates \in UpdateInputs :
        update_ticket(ticket_id, updates)

SpecUpdate == InitUpdate /\ [][NextUpdate]_vars

\* the columns that the claim lets an update change
Whitelist ==
    {"client_name", "phone", "location_object", "serial_numbers",
     "device_type", "question", "answer", "status", "needs_attention",
     "is_resolved"}

\* C29: update_ticket changes only the whitelisted fields that the update
\* names, plus updated_at; other keys are ignored; an update that is empty
\* or names only other keys leaves the row, updated_at included, unchanged.
C29_UpdateOnlyWhitelisted ==
    [][ (lastCall' # lastCall /\ lastCall'.op = "update")
          => LET updates == lastCall'.updates
                 named == DOMAIN updates \cap Whitelist
             IN  /\ {u.id : u \in tickets'} = {t.id : t \in tickets}
                 /\ \A t \in tickets : \A u \in tickets' :
                      u.id = t.id =>
                        /\ t.id # lastCall'.ticket_id => u = t
                        /\ named = {} => u = t
                        /\ \A f \in DOMAIN t :
                             u[f] # t[f] => f \in named \union {"updated_at"}
                        /\ (t.id = lastCall'.ticket_id)
                             => \A f \in named : u[f] = updates[f]
                        /\ (t.id = lastCall'.ticket_id /\ named # {})
                             => u.updated_at = now' ]_vars

\* an update naming a whitelisted key and another key has changed a ticket
C29_Witness ==
    /\ lastCall.op = "update" /\ lastCall.found
    /\ DOMAIN lastCall.updates \cap Whitelist # {}
    /\ DOMAIN lastCall.updates \ Whitelist # {}
    /\ \E t \in tickets : t.id = lastCall.ticket_id /\ t.question = tBc
                            /\ t.subject # tBb

-----------------------------------------------------------------------------
(* The guardrails of the AI pipeline: apply_guardrails (ai_guardrails.py).  *)

AUTO_SEND_CONFIDENCE_THRESHOLD == 92    \* 0.92, in hundredths
MAX_DRAFT_CHARS == 1200

NoReason == "None"

\* "пароль администратора", "переведите деньги"
blocked_patterns == << <<"b", "a", "k">>, <<"k", "k", "b">> >>

\* any(p in draft.lower() for p in blocked_patterns)
BlockedDraft_Never(draft) == FALSE

BlockedDraft(draft) ==
    \E i \in DOMAIN blocked_patterns :
        Contains(LowerStr(draft), blocked_patterns[i])

\* apply_guardrails(ai_result), `enabled` being AIConfig.AUTO_SEND_ENABLED
apply_guardrails(ai_result, enabled) ==
    LET stripped == Strip(ai_result.draft_answer)
        confidence == ai_result.confidence
        needs_attention == ai_result.needs_attention
        allowed0 == /\ enabled
                    /\ ~needs_attention
                    /\ confidence >= AUTO_SEND_CONFIDENCE_THRESHOLD
        reason0 == IF ~enabled THEN "auto_send_disabled_by_flag"
                   ELSE IF needs_attention THEN "needs_operator_attention"
                   ELSE IF confidence < AUTO_SEND_CONFIDENCE_THRESHOLD
                     THEN "low_confidence"
                   ELSE NoReason
        draft == IF Len(stripped) > MAX_DRAFT_CHARS
                   THEN RStrip(Take(stripped, MAX_DRAFT_CHARS))
                            \o <<".", ".", ".">>
                   ELSE stripped
        blocked == BlockedDraft(draft)
    IN  [auto_send_allowed |-> IF blocked THEN FALSE ELSE allowed0,
         auto_send_reason |-> IF blocked THEN "blocked_by_safety_pattern"
                              ELSE reason0,
         draft_answer |-> draft,
         needs_attention |-> IF blocked THEN TRUE ELSE needs_attention]

\* n characters of a draft
Pad(n) == [i \in 1..n |-> "c"]

\* the drafts of the generator: short and long, with and without a blocked
\* pattern, the pattern before, across and after the cut
GuardDrafts ==
    { <<>>,
      tReply,
      <<"b", "a", "k">>,
      <<" ", "a", " ", "K", "k", "B", " ">>,
      <<"b", "a", " ", "k">>,
      Pad(MAX_DRAFT_CHARS),
      Pad(MAX_DRAFT_CHARS + 1),
      <<"b", "a", "k">> \o Pad(MAX_DRAFT_CHARS),
      Pad(MAX_DRAFT_CHARS - 2) \o <<"b", "a", "k">>,
      Pad(MAX_DRAFT_CHARS - 4) \o <<"b", "a", "k", " ", " ", "c">>,
      Pad(MAX_DRAFT_CHARS) \o <<"b", "a", "k">> }

\* the confidence of the analyzer, in hundredths; 0 also for a missing one
GuardConfidences == {0, 68, 91, 92, 100}

\* the observation of a call of apply_guardrails
GuardCall(ai_result, enabled) ==
    [enabled |-> enabled, input |-> ai_result, op |-> "guard",
     result |-> apply_guardrails(ai_result, enabled)]

guard_call(ai_result, enabled) ==
    /\ lastCall = NoCall
    /\ lastCall' = GuardCall(ai_result, enabled)
    /\ UNCHANGED <<kb, kbSeq, tickets, ticketSeq, emailLog, schema, now,
                   lastSearch, ingest, deliveries, fill, lastFill, proc,
                   outgoing>>

InitGuard == InitIngest

NextGuard ==
    \E draft \in GuardDrafts, confidence \in GuardConfidences,
       needs_attention \in BOOLEAN, enabled \in BOOLEAN :
        guard_call([confidence |-> confidence, draft_answer |-> draft,
                    needs_attention |-> needs_attention], enabled)

SpecGuard == InitGuard /\ [][NextGuard]_vars

\* does the text hold one of the two blocked phrases, in any case
HoldsBlockedPhrase(text) ==
    ILike(text, <<"b", "a", "k">>) \/ ILike(text, <<"k", "k", "b">>)

\* C28: apply_guardrails gives auto_send_allowed = true only if auto-send is
\* enabled, the result needs no attention, the confidence reaches the
\* threshold and the truncated draft holds no blocked pattern;
\* auto_send_allowed holds exactly when auto_send_reason is None; a blocked
\* pattern forces needs_attention true and auto_send_allowed false.
C28_GuardrailsAutoSend ==
    lastCall.op = "guard"
        => LET in == lastCall.input
               out == lastCall.result
           IN  /\ out.auto_send_allowed
                    => /\ lastCall.enabled
                       /\ ~in.needs_attention
                       /\ in.confidence >= 92
                       /\ ~HoldsBlockedPhrase(out.draft_answer)
               /\ out.auto_send_allowed <=> out.auto_send_reason = "None"
               /\ HoldsBlockedPhrase(out.draft_answer)
                    => out.needs_attention /\ ~out.auto_send_allowed
               /\ Len(out.draft_answer) <= 1200 + 3

\* a long draft with a blocked phrase that would otherwise be sent
C28_Witness ==
    /\ lastCall.op = "guard"
    /\ LET in == lastCall.input
           out == lastCall.result
       IN  /\ lastCall.enabled
           /\ ~in.needs_attention
           /\ in.confidence >= 92
           /\ Len(in.draft_answer) > 1200
           /\ HoldsBlockedPhrase(out.draft_answer)
           /\ out.auto_send_reason = "blocked_by_safety_pattern"

====
